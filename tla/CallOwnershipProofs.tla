------------------------- MODULE CallOwnershipProofs -------------------------
(***************************************************************************)
(* Proofs about CallOwnership, for any entry points and forms of input:    *)
(* what a call drops keeps the arena alive for its values, except where a  *)
(* JSON payload is rejected, and a call that returns keeps nothing.        *)
(***************************************************************************)
EXTENDS CallOwnership, Integers, TLAPS

\* What is to be dropped, and the order: when an arena comes to be dropped, the
\* values in it are listed before it.
Listed(x) == \E i \in DOMAIN todo : todo[i] = x
Before(arena, values) ==
  \A i \in DOMAIN todo : todo[i] = arena =>
    \A x \in owns \cap values : \E j \in 1..(i - 1) : todo[j] = x

\* Where a call of each form and verdict can be.
Objects == {"owned", "refused", "raising"}
Located ==
  /\ pc \in {"called", "converting", "prepared", "validating"} => verdict = "none"
  /\ pc \in {"validated", "answering", "refused"} => verdict \in {"accepted", "rejected"}
  /\ pc = "converting" => call.form \in Objects
  /\ pc = "refused" => call.form = "refused" /\ verdict = "rejected"
  /\ pc = "prepared" => call.form \in {"owned", "json", "malformed"}
  /\ pc \in {"validating", "validated"} => call.form \in {"owned", "json"}
  /\ pc = "answering" => call.form \in {"owned", "json"} \/ (call.form = "malformed" /\ verdict = "rejected")
  /\ pc \notin {"refused", "answering", "returning"} => todo = <<>>

\* What a call owns is listed, or it is one of these.
Given ==
  IF call.form = "owned" THEN {"schema", "prepared arena", "prepared value"} ELSE {"schema", "source"}
Transient ==
  IF call.form = "owned" THEN Given \cup {"local arena", "validator arena", "validated value"}
  ELSE Given \cup {"parsed value", "validator arena", "validated value"}
Answer == IF verdict = "accepted" THEN {"result arena", "result value"} ELSE {"issues"}
Accounted ==
  /\ pc \in {"called", "returned"} => owns = {}
  /\ pc = "converting" => owns \subseteq {"partial value", "prepared arena"}
  /\ pc = "prepared" => owns \subseteq Given
  /\ pc = "validating" => owns \subseteq Transient
  /\ pc = "validated" => owns \subseteq Transient \cup (IF verdict = "rejected" THEN {"issues"} ELSE {})
  /\ pc = "answering" => \A x \in owns : x \in Answer \/ Listed(x)
  /\ pc \in {"refused", "returning"} => \A x \in owns : Listed(x)
  /\ pc = "answering" => \A i \in DOMAIN todo : todo[i] \in Transient
  /\ pc = "returning" => \A i \in DOMAIN todo : todo[i] \in {"result value", "result arena", "issues"}
  /\ pc = "refused" => \A i \in DOMAIN todo : todo[i] \in {"partial value", "prepared arena"}

\* The handle that each value relies on.
InPrepared == {"partial value", "prepared value", "validated value"}
Relied ==
  /\ call.form \in Objects =>
       /\ \A x \in InPrepared : x \in owns => "prepared arena" \in owns
       /\ "parsed value" \notin owns
       /\ pc \in {"prepared", "validating", "validated"} => "prepared arena" \in owns
       /\ Before("prepared arena", InPrepared)
  /\ call.form = "json" =>
       /\ verdict = "none" /\ pc # "validating" => \A x \in Values : x \notin owns
       /\ pc \in {"validating", "validated"} => "validator arena" \in owns
  /\ call.form = "malformed" => \A x \in Values : x \notin owns
  /\ "result value" \in owns => "result arena" \in owns
  /\ Before("result arena", {"result value"})

\* What the validation left is there until the call answers.
Answered ==
  /\ verdict = "rejected" /\ call.form # "refused" /\ pc \in {"validated", "answering"} => "issues" \in owns
  /\ verdict = "accepted" /\ pc \in {"answering", "raised"} => "result arena" \in owns
  /\ verdict = "accepted" /\ pc = "answering" => ("result value" \in owns <=> call.nested)

\* What an exception leaves behind.
RaisesKeep == RaiseKeepsOnlyOutcome /\ OnlyInterruptsKeepSchema

IInv == TypeOK /\ Located /\ Accounted /\ Relied /\ Answered /\ RaisesKeep

LEMMA Initially == Init => IInv
BY DEF Init, IInv, TypeOK, Calls, Labels, Located, Accounted, Relied, Before, Answered,
       RaisesKeep, RaiseKeepsOnlyOutcome, OnlyInterruptsKeepSchema, Objects

\* When all that was listed is dropped, the outcome is all that is left.
LEMMA OutcomeRemains ==
  ASSUME IInv, todo = <<>>, pc \in {"answering", "refused"}
  PROVE  owns = IF verdict = "accepted" THEN {"result arena"} \cup Held("result value")
                ELSE IF call.form = "refused" THEN {} ELSE {"issues"}
<1>1. \A x : ~Listed(x)
  BY DEF Listed
<1>2. CASE pc = "refused"
  BY <1>1, <1>2 DEF IInv, Located, Accounted
<1>3. CASE pc = "answering" /\ verdict = "rejected"
  <2>1. call.form # "refused"
    BY <1>3 DEF IInv, Located
  <2>2. "issues" \in owns /\ owns \subseteq {"issues"}
    BY <1>1, <1>3, <2>1 DEF IInv, Accounted, Answer, Answered
  <2> QED  BY <1>3, <2>1, <2>2
<1>4. CASE pc = "answering" /\ verdict = "accepted"
  <2>1. "result arena" \in owns /\ owns \subseteq {"result arena", "result value"}
    BY <1>1, <1>4 DEF IInv, Accounted, Answer, Answered
  <2>2. "result value" \in owns <=> call.nested
    BY <1>4 DEF IInv, Answered
  <2>3. CASE call.nested
    BY <1>4, <2>1, <2>2, <2>3 DEF Held
  <2>4. CASE ~call.nested
    BY <1>4, <2>1, <2>2, <2>4 DEF Held
  <2> QED  BY <2>3, <2>4
<1>5. pc = "answering" => verdict \in {"accepted", "rejected"}
  BY DEF IInv, Located
<1> QED  BY <1>2, <1>3, <1>4, <1>5

\* A drop takes the first that is listed, and no arena before what is in it.
LEMMA DropKeeps == ASSUME IInv, Drop PROVE IInv'
<1>1. /\ todo \in Seq(Resources) /\ todo # <<>>
      /\ owns' = owns \ {todo[1]} /\ todo' = Tail(todo)
      /\ call' = call /\ pc' = pc /\ verdict' = verdict
  BY DEF IInv, TypeOK, Drop
<1>2. /\ todo' \in Seq(Resources) /\ Len(todo) \in Nat /\ DOMAIN todo = 1..Len(todo)
      /\ DOMAIN todo' = 1..(Len(todo) - 1)
      /\ \A i \in DOMAIN todo' : i + 1 \in DOMAIN todo /\ todo'[i] = todo[i + 1]
  BY <1>1
<1>3. 1 \in DOMAIN todo
  BY <1>1, <1>2
<1>4. ASSUME NEW x \in owns', Listed(x) PROVE Listed(x)'
  <2>1. PICK i \in DOMAIN todo : todo[i] = x
    BY <1>4 DEF Listed
  <2>2. i # 1 /\ i - 1 \in DOMAIN todo' /\ todo'[i - 1] = todo[i]
    BY <1>1, <1>2, <2>1
  <2> QED  BY <2>1, <2>2 DEF Listed
<1>5. ASSUME NEW arena, NEW values, Before(arena, values)
      PROVE  /\ Before(arena, values)'
             /\ todo[1] = arena => owns \cap values = {}
  <2>1. ASSUME NEW i \in DOMAIN todo', todo'[i] = arena, NEW x \in owns' \cap values
        PROVE  \E j \in 1..(i - 1) : todo'[j] = x
    <3>1. i + 1 \in DOMAIN todo /\ todo[i + 1] = arena /\ x \in owns \cap values
      BY <1>1, <1>2, <2>1
    <3>2. PICK j \in 1..((i + 1) - 1) : todo[j] = x
      BY <1>5, <3>1 DEF Before
    <3>3. j # 1 /\ i \in Nat /\ j - 1 \in 1..(i - 1)
      BY <1>1, <1>2, <2>1, <3>2
    <3>4. j - 1 \in DOMAIN todo' /\ todo'[j - 1] = todo[(j - 1) + 1]
      BY <1>2, <2>1, <3>3
    <3> QED  BY <3>2, <3>3, <3>4
  <2>2. ASSUME todo[1] = arena, NEW x \in owns \cap values PROVE FALSE
    BY <1>3, <1>5, <2>2 DEF Before
  <2> QED  BY <2>1, <2>2 DEF Before
<1>6. TypeOK'
  BY <1>1, <1>2 DEF IInv, TypeOK
<1>7. Located'
  BY <1>1 DEF IInv, Located
<1>8. Accounted'
  <2>1. \A x \in owns' : x \in owns
    BY <1>1
  <2>2. \A i \in DOMAIN todo' : i + 1 \in DOMAIN todo /\ todo'[i] = todo[i + 1]
    BY <1>2
  <2>3. Answer' = Answer /\ Transient' = Transient /\ Given' = Given
    BY <1>1 DEF Answer, Transient, Given
  <2> QED  BY <1>1, <1>4, <2>1, <2>2, <2>3 DEF IInv, Accounted
<1>9. Relied'
  <2>1. Before("result arena", {"result value"}) /\ Relied
    BY DEF IInv, Relied
  <2>2. /\ Before("result arena", {"result value"})'
        /\ "result value" \in owns' => "result arena" \in owns'
    BY <1>1, <1>5, <2>1 DEF Relied
  <2>3. call.form \in Objects =>
          /\ \A x \in InPrepared : x \in owns' => "prepared arena" \in owns'
          /\ "parsed value" \notin owns'
          /\ pc \in {"prepared", "validating", "validated"} => "prepared arena" \in owns'
          /\ Before("prepared arena", InPrepared)'
    <3> SUFFICES ASSUME call.form \in Objects
                 PROVE  /\ \A x \in InPrepared : x \in owns' => "prepared arena" \in owns'
                        /\ "parsed value" \notin owns'
                        /\ pc \in {"prepared", "validating", "validated"} => "prepared arena" \in owns'
                        /\ Before("prepared arena", InPrepared)'
      OBVIOUS
    <3>1. Before("prepared arena", InPrepared)
      BY <2>1 DEF Relied
    <3>2. /\ Before("prepared arena", InPrepared)'
          /\ todo[1] = "prepared arena" => owns \cap InPrepared = {}
      BY <1>5, <3>1
    <3> QED  BY <1>1, <2>1, <3>2 DEF IInv, Located, Relied
  <2>4. call.form = "json" =>
          /\ verdict = "none" /\ pc # "validating" => \A x \in Values : x \notin owns'
          /\ pc \in {"validating", "validated"} => "validator arena" \in owns'
    BY <1>1, <2>1 DEF IInv, Located, Relied
  <2> QED  BY <1>1, <2>1, <2>2, <2>3, <2>4 DEF Relied
<1>10. Answered'
  BY <1>1, <1>3 DEF IInv, Answered, Accounted, Transient, Given, Located
<1>11. RaisesKeep'
  BY <1>1 DEF IInv, Located, RaisesKeep, RaiseKeepsOnlyOutcome, OnlyInterruptsKeepSchema
<1> QED  BY <1>6, <1>7, <1>8, <1>9, <1>10, <1>11 DEF IInv

\* The steps up to the validation, and those that end in an exception.
LEMMA EarlySteps ==
  ASSUME IInv,
         \/ PrepareJson \/ Convert \/ Prepare \/ RaiseInConversion \/ Interrupted
         \/ ValidateOwned \/ ValidateJson \/ ValidateRoot
         \/ RaiseIssues \/ RaiseUnmaterialized \/ Leave
  PROVE  IInv'
<1>1. /\ todo = <<>> /\ todo' = <<>> /\ call' = call
      /\ call \in Calls /\ pc \in Labels /\ owns \subseteq Resources
      /\ verdict \in {"none", "accepted", "rejected"}
  BY DEF IInv, TypeOK, PrepareJson, Convert, Prepare, RaiseInConversion, Interrupted, ValidateOwned,
     ValidateJson, ValidateRoot, RaiseIssues, RaiseUnmaterialized, Leave, At, Answering, Goto
<1>2. /\ \A x : ~Listed(x) /\ ~Listed(x)'
      /\ Before("prepared arena", InPrepared)' /\ Before("result arena", {"result value"})'
      /\ DOMAIN todo = {} /\ DOMAIN todo' = {}
  BY <1>1 DEF Listed, Before
<1>3. /\ \A x \in Held("partial value") : x = "partial value"
      /\ \A x \in Held("prepared value") : x = "prepared value"
      /\ \A x \in Held("parsed value") : x = "parsed value"
      /\ \A x \in Held("validated value") : x = "validated value"
  BY DEF Held
<1>0. ASSUME pc \in {"answering", "refused"}, owns' = owns, verdict' = verdict
      PROVE  RaisesKeep'
  <2>1. owns = IF verdict = "accepted" THEN {"result arena"} \cup Held("result value")
               ELSE IF call.form = "refused" THEN {} ELSE {"issues"}
    BY <1>0, <1>1, OutcomeRemains
  <2>2. "schema" \notin owns
    BY <2>1 DEF Held
  <2>3. Held("result value")' = Held("result value")
    BY <1>1 DEF Held
  <2> QED
    BY <1>0, <1>1, <2>1, <2>2, <2>3 DEF RaisesKeep, RaiseKeepsOnlyOutcome, OnlyInterruptsKeepSchema
<1> USE <1>1, <1>2, <1>3
<1>4. CASE PrepareJson
  BY <1>4 DEF IInv, TypeOK, Resources, ArenaHandles, Values, Labels, Located, Accounted, Relied, Answered,
     RaisesKeep, RaiseKeepsOnlyOutcome, OnlyInterruptsKeepSchema, PrepareJson, At, Goto, Transient, Given, Objects
<1>5. CASE Convert
  BY <1>5 DEF IInv, TypeOK, Resources, ArenaHandles, Values, Labels, Located, Accounted, Relied, Answered,
     RaisesKeep, RaiseKeepsOnlyOutcome, OnlyInterruptsKeepSchema, Convert, At, Goto, Objects
<1>6. CASE Prepare
  <2>1. /\ pc = "converting" /\ call.form = "owned" /\ pc' = "prepared" /\ verdict' = verdict
        /\ owns' = {"schema", "prepared arena"} \cup Held("prepared value")
    BY <1>6 DEF Prepare, At, Goto
  <2>2. TypeOK'
    BY <2>1 DEF IInv, TypeOK, Labels, Resources, ArenaHandles, Values
  <2>3. Located'
    BY <2>1 DEF IInv, Located
  <2>4. Accounted'
    BY <2>1 DEF IInv, Accounted, Transient, Given
  <2>5. Relied'
    <3>1. ASSUME call.form \in Objects
          PROVE  /\ \A x \in InPrepared : x \in owns' => "prepared arena" \in owns'
                 /\ "parsed value" \notin owns'
                 /\ pc' \in {"prepared", "validating", "validated"} => "prepared arena" \in owns'
      BY <2>1, <3>1 DEF IInv, Accounted, Located, Relied, Objects, InPrepared, Transient, Given
    <3>2. ASSUME call.form = "json"
          PROVE  /\ verdict' = "none" /\ pc' # "validating" => \A x \in Values : x \notin owns'
                 /\ pc' \in {"validating", "validated"} => "validator arena" \in owns'
      BY <2>1, <3>2 DEF IInv, Located, Relied
    <3>3. ASSUME call.form = "malformed"
          PROVE  \A x \in Values : x \notin owns'
      BY <2>1, <3>3 DEF IInv, Located, Relied
    <3>4. "result value" \in owns' => "result arena" \in owns'
      BY <2>1 DEF IInv, Relied
    <3> QED  BY <3>1, <3>2, <3>3, <3>4 DEF Relied
  <2>6. Answered' /\ RaisesKeep'
    BY <2>1 DEF IInv, Located, Answered, RaisesKeep, RaiseKeepsOnlyOutcome, OnlyInterruptsKeepSchema
  <2> QED  BY <2>2, <2>3, <2>4, <2>5, <2>6 DEF IInv
<1>7. CASE RaiseInConversion
  BY <1>7 DEF IInv, TypeOK, Labels, Located, Accounted, Relied, Answered,
     RaisesKeep, RaiseKeepsOnlyOutcome, OnlyInterruptsKeepSchema, RaiseInConversion, At, Goto, Objects
<1>8. CASE Interrupted
  <2>1. /\ pc \in {"prepared", "answering"} /\ call.entry # "build_synced"
        /\ pc' = "raised" /\ owns' = owns /\ verdict' = verdict
    BY <1>8 DEF Interrupted, At, Goto
  <2>2. RaisesKeep'
    <3>1. CASE pc = "prepared"
      BY <2>1, <3>1 DEF IInv, Located, RaisesKeep, RaiseKeepsOnlyOutcome, OnlyInterruptsKeepSchema
    <3>2. CASE pc = "answering"
      BY <2>1, <3>2, <1>0
    <3> QED  BY <2>1, <3>1, <3>2
  <2> QED
    BY <2>1, <2>2 DEF IInv, TypeOK, Labels, Located, Accounted, Relied, Answered
<1>9. CASE ValidateOwned
  <2>1. /\ pc = "prepared" /\ call.form = "owned" /\ pc' = "validating" /\ verdict' = verdict
        /\ owns' = owns \cup {"local arena", "validator arena"}
    BY <1>9 DEF ValidateOwned, At, Answering, Goto
  <2>2. TypeOK'
    BY <2>1 DEF IInv, TypeOK, Labels, Resources, ArenaHandles, Values
  <2>3. Located'
    BY <2>1 DEF IInv, Located
  <2>4. Accounted'
    BY <2>1 DEF IInv, Accounted, Transient, Given
  <2>5. Relied'
    <3>1. ASSUME call.form \in Objects
          PROVE  /\ \A x \in InPrepared : x \in owns' => "prepared arena" \in owns'
                 /\ "parsed value" \notin owns'
                 /\ pc' \in {"prepared", "validating", "validated"} => "prepared arena" \in owns'
      BY <2>1, <3>1 DEF IInv, Accounted, Located, Relied, Objects, InPrepared, Transient, Given
    <3>2. ASSUME call.form = "json"
          PROVE  /\ verdict' = "none" /\ pc' # "validating" => \A x \in Values : x \notin owns'
                 /\ pc' \in {"validating", "validated"} => "validator arena" \in owns'
      BY <2>1, <3>2 DEF IInv, Located, Relied
    <3>3. ASSUME call.form = "malformed"
          PROVE  \A x \in Values : x \notin owns'
      BY <2>1, <3>3 DEF IInv, Located, Relied
    <3>4. "result value" \in owns' => "result arena" \in owns'
      BY <2>1 DEF IInv, Relied
    <3> QED  BY <3>1, <3>2, <3>3, <3>4 DEF Relied
  <2>6. Answered' /\ RaisesKeep'
    BY <2>1 DEF IInv, Accounted, Located, Answered, Answer, RaisesKeep, RaiseKeepsOnlyOutcome,
       OnlyInterruptsKeepSchema
  <2> QED  BY <2>2, <2>3, <2>4, <2>5, <2>6 DEF IInv
<1>10. CASE ValidateJson
  <2>1. /\ pc = "prepared" /\ call.form = "json" /\ pc' = "validating" /\ verdict' = verdict
        /\ owns' = owns \cup {"validator arena"} \cup Held("parsed value")
    BY <1>10 DEF ValidateJson, At, Answering, Goto
  <2>2. TypeOK'
    BY <2>1 DEF IInv, TypeOK, Labels, Resources, ArenaHandles, Values
  <2>3. Located'
    BY <2>1 DEF IInv, Located
  <2>4. Accounted'
    BY <2>1 DEF IInv, Accounted, Transient, Given
  <2>5. Relied'
    <3>1. ASSUME call.form \in Objects
          PROVE  /\ \A x \in InPrepared : x \in owns' => "prepared arena" \in owns'
                 /\ "parsed value" \notin owns'
                 /\ pc' \in {"prepared", "validating", "validated"} => "prepared arena" \in owns'
      BY <2>1, <3>1 DEF IInv, Accounted, Located, Relied, Objects, InPrepared, Transient, Given
    <3>2. ASSUME call.form = "json"
          PROVE  /\ verdict' = "none" /\ pc' # "validating" => \A x \in Values : x \notin owns'
                 /\ pc' \in {"validating", "validated"} => "validator arena" \in owns'
      BY <2>1, <3>2 DEF IInv, Located, Relied
    <3>3. ASSUME call.form = "malformed"
          PROVE  \A x \in Values : x \notin owns'
      BY <2>1, <3>3 DEF IInv, Located, Relied
    <3>4. "result value" \in owns' => "result arena" \in owns'
      BY <2>1 DEF IInv, Relied
    <3> QED  BY <3>1, <3>2, <3>3, <3>4 DEF Relied
  <2>6. Answered' /\ RaisesKeep'
    BY <2>1 DEF IInv, Accounted, Located, Answered, Answer, RaisesKeep, RaiseKeepsOnlyOutcome,
       OnlyInterruptsKeepSchema
  <2> QED  BY <2>2, <2>3, <2>4, <2>5, <2>6 DEF IInv
<1>11. CASE ValidateRoot
  <2>1. /\ pc = "validating" /\ pc' = "validated" /\ verdict' \in {"accepted", "rejected"}
        /\ owns \subseteq owns' /\ owns' \subseteq owns \cup {"validated value", "issues"}
        /\ verdict' = "accepted" => owns' \subseteq owns \cup {"validated value"}
        /\ verdict' = "rejected" => "issues" \in owns'
    BY <1>11 DEF ValidateRoot, At, Answering, Goto
  <2>2. TypeOK'
    BY <2>1 DEF IInv, TypeOK, Labels, Resources, ArenaHandles, Values
  <2>3. Located'
    BY <2>1 DEF IInv, Located
  <2>4. Accounted'
    BY <2>1 DEF IInv, Accounted, Transient, Given
  <2>5. Relied'
    <3>1. ASSUME call.form \in Objects
          PROVE  /\ \A x \in InPrepared : x \in owns' => "prepared arena" \in owns'
                 /\ "parsed value" \notin owns'
                 /\ pc' \in {"prepared", "validating", "validated"} => "prepared arena" \in owns'
      BY <2>1, <3>1 DEF IInv, Accounted, Located, Relied, Objects, InPrepared, Transient, Given
    <3>2. ASSUME call.form = "json"
          PROVE  /\ verdict' = "none" /\ pc' # "validating" => \A x \in Values : x \notin owns'
                 /\ pc' \in {"validating", "validated"} => "validator arena" \in owns'
      BY <2>1, <3>2 DEF IInv, Located, Relied
    <3>3. ASSUME call.form = "malformed"
          PROVE  \A x \in Values : x \notin owns'
      BY <2>1, <3>3 DEF IInv, Located, Relied
    <3>4. "result value" \in owns' => "result arena" \in owns'
      BY <2>1 DEF IInv, Relied
    <3> QED  BY <3>1, <3>2, <3>3, <3>4 DEF Relied
  <2>6. Answered' /\ RaisesKeep'
    BY <2>1 DEF IInv, Accounted, Located, Answered, Answer, RaisesKeep, RaiseKeepsOnlyOutcome,
       OnlyInterruptsKeepSchema
  <2> QED  BY <2>2, <2>3, <2>4, <2>5, <2>6 DEF IInv
<1>12. CASE RaiseIssues
  <2>1. /\ pc \in {"answering", "refused"} /\ pc' = "raised" /\ verdict = "rejected"
        /\ verdict' = verdict /\ owns' = owns
    BY <1>12 DEF RaiseIssues, At, Answering, Goto
  <2>2. TypeOK'
    BY <2>1 DEF IInv, TypeOK, Labels, Resources, ArenaHandles, Values
  <2>3. Located'
    BY <2>1 DEF IInv, Located
  <2>4. Accounted'
    BY <2>1 DEF IInv, Accounted, Transient, Given
  <2>5. Relied'
    <3>1. ASSUME call.form \in Objects
          PROVE  /\ \A x \in InPrepared : x \in owns' => "prepared arena" \in owns'
                 /\ "parsed value" \notin owns'
                 /\ pc' \in {"prepared", "validating", "validated"} => "prepared arena" \in owns'
      BY <2>1, <3>1 DEF IInv, Accounted, Located, Relied, Objects, InPrepared, Transient, Given
    <3>2. ASSUME call.form = "json"
          PROVE  /\ verdict' = "none" /\ pc' # "validating" => \A x \in Values : x \notin owns'
                 /\ pc' \in {"validating", "validated"} => "validator arena" \in owns'
      BY <2>1, <3>2 DEF IInv, Located, Relied
    <3>3. ASSUME call.form = "malformed"
          PROVE  \A x \in Values : x \notin owns'
      BY <2>1, <3>3 DEF IInv, Located, Relied
    <3>4. "result value" \in owns' => "result arena" \in owns'
      BY <2>1 DEF IInv, Relied
    <3> QED  BY <3>1, <3>2, <3>3, <3>4 DEF Relied
  <2>6. Answered' /\ RaisesKeep'
    BY <2>1, <1>0 DEF IInv, Answered
  <2> QED  BY <2>2, <2>3, <2>4, <2>5, <2>6 DEF IInv
<1>13. CASE RaiseUnmaterialized
  <2>1. /\ pc = "answering" /\ pc' = "raised" /\ verdict = "accepted"
        /\ verdict' = verdict /\ owns' = owns
    BY <1>13 DEF RaiseUnmaterialized, At, Answering, Goto
  <2>2. TypeOK'
    BY <2>1 DEF IInv, TypeOK, Labels, Resources, ArenaHandles, Values
  <2>3. Located'
    BY <2>1 DEF IInv, Located
  <2>4. Accounted'
    BY <2>1 DEF IInv, Accounted, Transient, Given
  <2>5. Relied'
    <3>1. ASSUME call.form \in Objects
          PROVE  /\ \A x \in InPrepared : x \in owns' => "prepared arena" \in owns'
                 /\ "parsed value" \notin owns'
                 /\ pc' \in {"prepared", "validating", "validated"} => "prepared arena" \in owns'
      BY <2>1, <3>1 DEF IInv, Accounted, Located, Relied, Objects, InPrepared, Transient, Given
    <3>2. ASSUME call.form = "json"
          PROVE  /\ verdict' = "none" /\ pc' # "validating" => \A x \in Values : x \notin owns'
                 /\ pc' \in {"validating", "validated"} => "validator arena" \in owns'
      BY <2>1, <3>2 DEF IInv, Located, Relied
    <3>3. ASSUME call.form = "malformed"
          PROVE  \A x \in Values : x \notin owns'
      BY <2>1, <3>3 DEF IInv, Located, Relied
    <3>4. "result value" \in owns' => "result arena" \in owns'
      BY <2>1 DEF IInv, Relied
    <3> QED  BY <3>1, <3>2, <3>3, <3>4 DEF Relied
  <2>6. Answered' /\ RaisesKeep'
    BY <2>1, <1>0 DEF IInv, Answered
  <2> QED  BY <2>2, <2>3, <2>4, <2>5, <2>6 DEF IInv
<1>14. CASE Leave
  BY <1>14 DEF IInv, TypeOK, Labels, Located, Accounted, Relied, Answered,
     RaisesKeep, RaiseKeepsOnlyOutcome, OnlyInterruptsKeepSchema, Leave, At, Goto
<1> QED
  BY <1>4, <1>5, <1>6, <1>7, <1>8, <1>9, <1>10, <1>11, <1>12, <1>13, <1>14

\* What the scopes drop, by its places.
List2(S, s, a, b) ==
  /\ s \in Seq(S) /\ s[1] = a /\ s[2] = b
  /\ 1 \in DOMAIN s /\ 2 \in DOMAIN s
  /\ \A i \in DOMAIN s : i = 1 \/ i = 2
List3(S, s, a, b, c) ==
  /\ s \in Seq(S) /\ s[1] = a /\ s[2] = b /\ s[3] = c
  /\ 1 \in DOMAIN s /\ 2 \in DOMAIN s /\ 3 \in DOMAIN s
  /\ \A i \in DOMAIN s : i = 1 \/ i = 2 \/ i = 3
List4(S, s, a, b, c, d) ==
  /\ s \in Seq(S) /\ s[1] = a /\ s[2] = b /\ s[3] = c /\ s[4] = d
  /\ 1 \in DOMAIN s /\ 2 \in DOMAIN s /\ 3 \in DOMAIN s /\ 4 \in DOMAIN s
  /\ \A i \in DOMAIN s : i = 1 \/ i = 2 \/ i = 3 \/ i = 4
List5(S, s, a, b, c, d, e) ==
  /\ s \in Seq(S) /\ s[1] = a /\ s[2] = b /\ s[3] = c /\ s[4] = d /\ s[5] = e
  /\ 1 \in DOMAIN s /\ 2 \in DOMAIN s /\ 3 \in DOMAIN s /\ 4 \in DOMAIN s /\ 5 \in DOMAIN s
  /\ \A i \in DOMAIN s : i = 1 \/ i = 2 \/ i = 3 \/ i = 4 \/ i = 5
List6(S, s, a, b, c, d, e, f) ==
  /\ s \in Seq(S) /\ s[1] = a /\ s[2] = b /\ s[3] = c /\ s[4] = d /\ s[5] = e /\ s[6] = f
  /\ 1 \in DOMAIN s /\ 2 \in DOMAIN s /\ 3 \in DOMAIN s /\ 4 \in DOMAIN s /\ 5 \in DOMAIN s /\ 6 \in DOMAIN s
  /\ \A i \in DOMAIN s : i = 1 \/ i = 2 \/ i = 3 \/ i = 4 \/ i = 5 \/ i = 6

LEMMA Two == \A S : \A a, b \in S :
  List2(S, <<a, b>>, a, b)
BY DEF List2

LEMMA Three == \A S : \A a, b, c \in S :
  List3(S, <<a, b, c>>, a, b, c)
BY DEF List3

LEMMA OneThenTwo == \A S : \A a, b, c \in S :
  List3(S, <<a>> \o <<b, c>>, a, b, c)
<1>1. ASSUME NEW S, NEW a \in S, NEW b \in S, NEW c \in S
      PROVE  List3(S, <<a>> \o <<b, c>>, a, b, c)
  <2>1. DOMAIN (<<a>> \o <<b, c>>) = 1..3
    OBVIOUS
  <2> QED  BY <2>1 DEF List3
<1> QED  BY <1>1

LEMMA OneThenThree == \A S : \A a, b, c, d \in S :
  List4(S, <<a>> \o <<b, c, d>>, a, b, c, d)
<1>1. ASSUME NEW S, NEW a \in S, NEW b \in S, NEW c \in S, NEW d \in S
      PROVE  List4(S, <<a>> \o <<b, c, d>>, a, b, c, d)
  <2>1. DOMAIN (<<a>> \o <<b, c, d>>) = 1..4
    OBVIOUS
  <2> QED  BY <2>1 DEF List4
<1> QED  BY <1>1

LEMMA ThreeThenTwo == \A S : \A a, b, c, d, e \in S :
  List5(S, <<a, b, c>> \o <<d, e>>, a, b, c, d, e)
<1>1. ASSUME NEW S, NEW a \in S, NEW b \in S, NEW c \in S, NEW d \in S, NEW e \in S
      PROVE  List5(S, <<a, b, c>> \o <<d, e>>, a, b, c, d, e)
  <2>1. DOMAIN (<<a, b, c>> \o <<d, e>>) = 1..5
    OBVIOUS
  <2> QED  BY <2>1 DEF List5
<1> QED  BY <1>1

LEMMA ThreeThenThree == \A S : \A a, b, c, d, e, f \in S :
  List6(S, <<a, b, c>> \o <<d, e, f>>, a, b, c, d, e, f)
<1>1. ASSUME NEW S, NEW a \in S, NEW b \in S, NEW c \in S, NEW d \in S, NEW e \in S, NEW f \in S
      PROVE  List6(S, <<a, b, c>> \o <<d, e, f>>, a, b, c, d, e, f)
  <2>1. DOMAIN (<<a, b, c>> \o <<d, e, f>>) = 1..6
    OBVIOUS
  <2> QED  BY <2>1 DEF List6
<1> QED  BY <1>1

LEMMA RefuseInputKeeps == ASSUME IInv, RefuseInput PROVE IInv'
<1>1. /\ pc = "converting" /\ call.form = "refused" /\ call' = call /\ pc' = "refused"
      /\ verdict' = "rejected" /\ owns' = owns
      /\ todo' = <<"partial value", "prepared arena">>
      /\ call \in Calls /\ owns \subseteq Resources
      /\ \A x \in owns : x = "partial value" \/ x = "prepared arena"
  BY DEF IInv, TypeOK, Accounted, RefuseInput, At, Goto
<1>2. /\ todo'[1] = "partial value" /\ todo'[2] = "prepared arena"
      /\ todo' \in Seq(Resources) /\ 1 \in DOMAIN todo' /\ 2 \in DOMAIN todo'
      /\ \A i \in DOMAIN todo' : i = 1 \/ i = 2
  <2>1. "partial value" \in Resources /\ "prepared arena" \in Resources
    BY DEF Resources, ArenaHandles, Values
  <2>2. List2(Resources, <<"partial value", "prepared arena">>, "partial value", "prepared arena")
    BY <2>1, Two, Zenon
  <2>3. List2(Resources, todo', "partial value", "prepared arena")
    BY <1>1, <2>2
  <2> QED  BY <2>3 DEF List2
<1>3. TypeOK'
  BY <1>1, <1>2 DEF IInv, TypeOK, Labels
<1>4. Located'
  BY <1>1 DEF Located
<1>5. Accounted'
  BY <1>1, <1>2 DEF Accounted, Listed
<1>6. Relied'
  <2>1. \A x \in owns' \cap InPrepared : x = "partial value"
    BY <1>1 DEF InPrepared
  <2>2. \A i \in DOMAIN todo' : todo'[i] # "result arena" /\ (todo'[i] = "prepared arena" => i = 2)
    BY <1>2
  <2>3. 1 \in 1..(2 - 1)
    OBVIOUS
  <2>4. Before("prepared arena", InPrepared)'
    BY <1>2, <2>1, <2>2, <2>3 DEF Before
  <2>5. Before("result arena", {"result value"})'
    BY <2>2 DEF Before
  <2> QED  BY <1>1, <2>4, <2>5 DEF IInv, Relied, Objects
<1> QED  BY <1>1, <1>3, <1>4, <1>5, <1>6 
    DEF IInv, Answered, RaisesKeep, RaiseKeepsOnlyOutcome, OnlyInterruptsKeepSchema

LEMMA RejectMalformedKeeps == ASSUME IInv, RejectMalformedJson PROVE IInv'
<1>1. /\ pc = "prepared" /\ call.form = "malformed" /\ call' = call /\ pc' = "answering"
      /\ verdict' = "rejected" /\ owns' = owns \cup {"issues"}
      /\ todo' = <<"source", "schema">>
      /\ call \in Calls /\ owns \subseteq Resources
      /\ \A x \in owns : x = "schema" \/ x = "source"
  BY DEF IInv, TypeOK, Accounted, Given, RejectMalformedJson, At, Goto
<1>2. /\ todo'[1] = "source" /\ todo'[2] = "schema"
      /\ todo' \in Seq(Resources) /\ 1 \in DOMAIN todo' /\ 2 \in DOMAIN todo'
      /\ \A i \in DOMAIN todo' : i = 1 \/ i = 2
  <2>1. "source" \in Resources /\ "schema" \in Resources
    BY DEF Resources, ArenaHandles, Values
  <2>2. List2(Resources, <<"source", "schema">>, "source", "schema")
    BY <2>1, Two, Zenon
  <2>3. List2(Resources, todo', "source", "schema")
    BY <1>1, <2>2
  <2> QED  BY <2>3 DEF List2
<1>3. TypeOK'
  BY <1>1, <1>2 DEF IInv, TypeOK, Labels, Resources
<1>4. Located'
  BY <1>1 DEF Located
<1>5. Accounted'
  BY <1>1, <1>2 DEF Accounted, Listed, Answer, Transient, Given
<1>6. Relied'
  <2>1. Before("prepared arena", InPrepared)' /\ Before("result arena", {"result value"})'
    BY <1>1, <1>2 DEF Before
  <2> QED  BY <1>1, <2>1 DEF IInv, Relied, Objects, Values
<1> QED  BY <1>1, <1>3, <1>4, <1>5, <1>6
    DEF IInv, Answered, RaisesKeep, RaiseKeepsOnlyOutcome, OnlyInterruptsKeepSchema

LEMMA FinishAcceptedKeeps == ASSUME IInv, FinishAccepted PROVE IInv'
<1>1. /\ pc = "validated" /\ verdict = "accepted" /\ call' = call /\ pc' = "answering"
      /\ verdict' = verdict
      /\ owns' = (owns \ {"validator arena", "validated value"})
                   \cup {"result arena"} \cup Held("result value")
      /\ todo' = <<"schema">> \o Exit
      /\ call \in Calls /\ owns \subseteq Resources
      /\ call.form \in {"owned", "json"} /\ owns \subseteq Transient
  BY DEF IInv, TypeOK, Accounted, Located, FinishAccepted, At, Goto
<1>2. \A x \in Held("result value") : x = "result value"
  BY DEF Held
<1>3. Answered' /\ RaisesKeep'
  <2>1. "result value" \notin owns
    BY <1>1 DEF Transient, Given
  <2>2. "result value" \in owns' <=> call.nested
    BY <1>1, <2>1 DEF Held
  <2> QED
    BY <1>1, <2>2 DEF Answered, RaisesKeep, RaiseKeepsOnlyOutcome, OnlyInterruptsKeepSchema
<1>4. Located'
  BY <1>1 DEF Located
<1>5. CASE call.form = "owned"
  <2>1. todo' = <<"schema">> \o <<"local arena", "prepared value", "prepared arena">>
    BY <1>1, <1>5 DEF Exit
  <2>2. /\ todo'[1] = "schema" /\ todo'[2] = "local arena" /\ todo'[3] = "prepared value"
        /\ todo'[4] = "prepared arena"
        /\ todo' \in Seq(Resources) /\ 1 \in DOMAIN todo' /\ 2 \in DOMAIN todo' /\ 3 \in DOMAIN todo' /\ 4 \in DOMAIN todo'
        /\ \A i \in DOMAIN todo' : i = 1 \/ i = 2 \/ i = 3 \/ i = 4
    <3>1. "schema" \in Resources /\ "local arena" \in Resources /\ "prepared value" \in Resources /\ "prepared arena" \in Resources
      BY DEF Resources, ArenaHandles, Values
    <3>2. List4(Resources, <<"schema">> \o <<"local arena", "prepared value", "prepared arena">>, "schema", "local arena", "prepared value", "prepared arena")
      BY <3>1, OneThenThree, Zenon
    <3>3. List4(Resources, todo', "schema", "local arena", "prepared value", "prepared arena")
      BY <2>1, <3>2
    <3> QED  BY <3>3 DEF List4
  <2>3. TypeOK'
    BY <1>1, <1>2, <2>2 DEF IInv, TypeOK, Labels, Resources, ArenaHandles, Values
  <2>4. Accounted'
    BY <1>1, <1>2, <1>5, <2>2 DEF Accounted, Listed, Answer, Transient, Given
  <2>5. Relied'
    <3>1. Before("prepared arena", InPrepared)'
      <4>1. \A x \in owns' \cap InPrepared : x = "prepared value"
        BY <1>1, <1>2, <1>5 DEF InPrepared, Transient, Given
      <4>2. \A i \in DOMAIN todo' : todo'[i] = "prepared arena" => i = 4
        BY <2>2
      <4>3. 3 \in 1..(4 - 1)
        OBVIOUS
      <4> QED  BY <2>2, <4>1, <4>2, <4>3 DEF Before
    <3>2. Before("result arena", {"result value"})'
      BY <2>2 DEF Before
    <3>3. /\ \A x \in InPrepared : x \in owns' => "prepared arena" \in owns'
          /\ "parsed value" \notin owns'
      BY <1>1, <1>2, <1>5 DEF IInv, Relied, InPrepared, Objects
    <3> QED  BY <1>1, <1>5, <3>1, <3>2, <3>3 DEF Relied
  <2> QED  BY <1>3, <1>4, <2>3, <2>4, <2>5 DEF IInv
<1>6. CASE call.form = "json"
  <2>1. todo' = <<"schema">> \o <<"parsed value", "source">>
    BY <1>1, <1>6 DEF Exit
  <2>2. /\ todo'[1] = "schema" /\ todo'[2] = "parsed value" /\ todo'[3] = "source"
        /\ todo' \in Seq(Resources) /\ 1 \in DOMAIN todo' /\ 2 \in DOMAIN todo' /\ 3 \in DOMAIN todo'
        /\ \A i \in DOMAIN todo' : i = 1 \/ i = 2 \/ i = 3
    <3>1. "schema" \in Resources /\ "parsed value" \in Resources /\ "source" \in Resources
      BY DEF Resources, ArenaHandles, Values
    <3>2. List3(Resources, <<"schema">> \o <<"parsed value", "source">>, "schema", "parsed value", "source")
      BY <3>1, OneThenTwo, Zenon
    <3>3. List3(Resources, todo', "schema", "parsed value", "source")
      BY <2>1, <3>2
    <3> QED  BY <3>3 DEF List3
  <2>3. TypeOK'
    BY <1>1, <1>2, <2>2 DEF IInv, TypeOK, Labels, Resources, ArenaHandles, Values
  <2>4. Accounted'
    BY <1>1, <1>2, <1>6, <2>2 DEF Accounted, Listed, Answer, Transient, Given
  <2>5. Before("result arena", {"result value"})'
    BY <2>2 DEF Before
  <2>6. Relied'
    BY <1>1, <1>6, <2>5 DEF Relied, Objects
  <2> QED  BY <1>3, <1>4, <2>3, <2>4, <2>6 DEF IInv
<1> QED  BY <1>1, <1>5, <1>6

LEMMA FinishRejectedKeeps == ASSUME IInv, FinishRejected PROVE IInv'
<1>1. /\ pc = "validated" /\ verdict = "rejected" /\ call' = call /\ pc' = "answering"
      /\ verdict' = verdict /\ owns' = owns
      /\ todo' = <<"validator arena", "validated value", "schema">> \o Exit
      /\ call \in Calls /\ owns \subseteq Resources
      /\ call.form \in {"owned", "json"} /\ owns \subseteq Transient \cup {"issues"}
  BY DEF IInv, TypeOK, Accounted, Located, FinishRejected, At, Goto
<1>2. Answered' /\ RaisesKeep'
  BY <1>1 DEF IInv, Answered, RaisesKeep, RaiseKeepsOnlyOutcome, OnlyInterruptsKeepSchema
<1>3. Located'
  BY <1>1 DEF Located
<1>4. CASE call.form = "owned"
  <2>1. todo' = <<"validator arena", "validated value", "schema">> \o <<"local arena", "prepared value", "prepared arena">>
    BY <1>1, <1>4 DEF Exit
  <2>2. /\ todo'[1] = "validator arena" /\ todo'[2] = "validated value" /\ todo'[3] = "schema"
        /\ todo'[4] = "local arena" /\ todo'[5] = "prepared value" /\ todo'[6] = "prepared arena"
        /\ todo' \in Seq(Resources) /\ 1 \in DOMAIN todo' /\ 2 \in DOMAIN todo' /\ 3 \in DOMAIN todo' /\ 4 \in DOMAIN todo' /\ 5 \in DOMAIN todo' /\ 6 \in DOMAIN todo'
        /\ \A i \in DOMAIN todo' : i = 1 \/ i = 2 \/ i = 3 \/ i = 4 \/ i = 5 \/ i = 6
    <3>1. "validator arena" \in Resources /\ "validated value" \in Resources /\ "schema" \in Resources /\ "local arena" \in Resources /\ "prepared value" \in Resources /\ "prepared arena" \in Resources
      BY DEF Resources, ArenaHandles, Values
    <3>2. List6(Resources, <<"validator arena", "validated value", "schema">> \o <<"local arena", "prepared value", "prepared arena">>, "validator arena", "validated value", "schema", "local arena", "prepared value", "prepared arena")
      BY <3>1, ThreeThenThree, Zenon
    <3>3. List6(Resources, todo', "validator arena", "validated value", "schema", "local arena", "prepared value", "prepared arena")
      BY <2>1, <3>2
    <3> QED  BY <3>3 DEF List6
  <2>3. TypeOK'
    BY <1>1, <2>2 DEF IInv, TypeOK, Labels
  <2>4. Accounted'
    BY <1>1, <1>4, <2>2 DEF Accounted, Listed, Answer, Transient, Given
  <2>5. Relied'
    <3>1. Before("prepared arena", InPrepared)'
      <4>1. \A x \in owns' \cap InPrepared : x = "prepared value" \/ x = "validated value"
        BY <1>1, <1>4 DEF InPrepared, Transient, Given
      <4>2. 2 \in 1..(6 - 1) /\ 5 \in 1..(6 - 1)
        OBVIOUS
      <4>3. \A i \in DOMAIN todo' : todo'[i] = "prepared arena" => i = 6
        BY <2>2
      <4> QED  BY <2>2, <4>1, <4>2, <4>3 DEF Before
    <3>2. Before("result arena", {"result value"})'
      BY <2>2 DEF Before
    <3> QED  BY <1>1, <1>4, <3>1, <3>2 DEF IInv, Relied
  <2> QED  BY <1>2, <1>3, <2>3, <2>4, <2>5 DEF IInv
<1>5. CASE call.form = "json"
  <2>1. todo' = <<"validator arena", "validated value", "schema">> \o <<"parsed value", "source">>
    BY <1>1, <1>5 DEF Exit
  <2>2. /\ todo'[1] = "validator arena" /\ todo'[2] = "validated value" /\ todo'[3] = "schema"
        /\ todo'[4] = "parsed value" /\ todo'[5] = "source"
        /\ todo' \in Seq(Resources) /\ 1 \in DOMAIN todo' /\ 2 \in DOMAIN todo' /\ 3 \in DOMAIN todo' /\ 4 \in DOMAIN todo' /\ 5 \in DOMAIN todo'
        /\ \A i \in DOMAIN todo' : i = 1 \/ i = 2 \/ i = 3 \/ i = 4 \/ i = 5
    <3>1. "validator arena" \in Resources /\ "validated value" \in Resources /\ "schema" \in Resources /\ "parsed value" \in Resources /\ "source" \in Resources
      BY DEF Resources, ArenaHandles, Values
    <3>2. List5(Resources, <<"validator arena", "validated value", "schema">> \o <<"parsed value", "source">>, "validator arena", "validated value", "schema", "parsed value", "source")
      BY <3>1, ThreeThenTwo, Zenon
    <3>3. List5(Resources, todo', "validator arena", "validated value", "schema", "parsed value", "source")
      BY <2>1, <3>2
    <3> QED  BY <3>3 DEF List5
  <2>3. TypeOK'
    BY <1>1, <2>2 DEF IInv, TypeOK, Labels
  <2>4. Accounted'
    BY <1>1, <1>5, <2>2 DEF Accounted, Listed, Answer, Transient, Given
  <2>5. Before("result arena", {"result value"})'
    BY <2>2 DEF Before
  <2>6. Relied'
    BY <1>1, <1>5, <2>5 DEF IInv, Relied, Objects
  <2> QED  BY <1>2, <1>3, <2>3, <2>4, <2>6 DEF IInv
<1> QED  BY <1>1, <1>4, <1>5

LEMMA ReturnKeeps == ASSUME IInv, Return PROVE IInv'
<1>1. /\ pc \in {"answering", "refused"} /\ call' = call /\ pc' = "returning" /\ todo = <<>>
      /\ verdict' = verdict /\ owns' = owns /\ todo' = <<"result value", "result arena", "issues">>
      /\ call \in Calls /\ owns \subseteq Resources /\ verdict \in {"accepted", "rejected"}
  BY DEF IInv, TypeOK, Located, Return, Result, Answering, At, Goto
<1>2. /\ todo'[1] = "result value" /\ todo'[2] = "result arena" /\ todo'[3] = "issues"
      /\ todo' \in Seq(Resources) /\ 1 \in DOMAIN todo' /\ 2 \in DOMAIN todo' /\ 3 \in DOMAIN todo'
      /\ \A i \in DOMAIN todo' : i = 1 \/ i = 2 \/ i = 3
  <2>1. "result value" \in Resources /\ "result arena" \in Resources /\ "issues" \in Resources
    BY DEF Resources, ArenaHandles, Values
  <2>2. List3(Resources, <<"result value", "result arena", "issues">>, "result value", "result arena", "issues")
    BY <2>1, Three, Zenon
  <2>3. List3(Resources, todo', "result value", "result arena", "issues")
    BY <1>1, <2>2
  <2> QED  BY <2>3 DEF List3
<1>3. \A x \in owns : x \in {"result value", "result arena", "issues"}
  <2>1. \A x : ~Listed(x)
    <3>1. todo = <<>>
      BY DEF Return, Answering, At
    <3>2. todo \in Seq(Resources) /\ Len(todo) = 0
      BY <3>1
    <3>3. \A i : i \notin DOMAIN todo
      BY <3>2
    <3> QED  BY <3>3 DEF Listed
  <2> QED  BY <1>1, <2>1 DEF IInv, Accounted, Answer
<1>4. TypeOK'
  BY <1>1, <1>2 DEF IInv, TypeOK, Labels
<1>5. Located'
  BY <1>1 DEF Located
<1>6. Accounted'
  BY <1>1, <1>2, <1>3 DEF Accounted, Listed
<1>7. Relied'
  <2>1. Before("prepared arena", InPrepared)'
    <3>1. \A i \in DOMAIN todo' : todo'[i] # "prepared arena"
      BY <1>2
    <3> QED  BY <3>1 DEF Before
  <2>2. Before("result arena", {"result value"})'
    <3>1. \A i \in DOMAIN todo' : todo'[i] = "result arena" => i = 2
      BY <1>2
    <3>2. 1 \in 1..(2 - 1)
      OBVIOUS
    <3> QED  BY <1>2, <3>1, <3>2 DEF Before
  <2> QED  BY <1>1, <2>1, <2>2 DEF IInv, Relied
<1> QED  BY <1>1, <1>4, <1>5, <1>6, <1>7
    DEF IInv, Answered, RaisesKeep, RaiseKeepsOnlyOutcome, OnlyInterruptsKeepSchema

LEMMA Step == IInv /\ [Next]_vars => IInv'
<1> SUFFICES ASSUME IInv, [Next]_vars PROVE IInv'
  OBVIOUS
<1>1. CASE Next
  BY <1>1, DropKeeps, EarlySteps, RefuseInputKeeps, RejectMalformedKeeps, FinishAcceptedKeeps,
     FinishRejectedKeeps, ReturnKeeps DEF Next
<1>2. CASE UNCHANGED vars
  <2>1. call' = call /\ pc' = pc /\ owns' = owns /\ todo' = todo /\ verdict' = verdict
    BY <1>2 DEF vars
  <2>2. TypeOK' /\ Located' /\ Answered' /\ RaisesKeep'
    BY <2>1 DEF IInv, TypeOK, Located, Answered, RaisesKeep, RaiseKeepsOnlyOutcome,
       OnlyInterruptsKeepSchema, Held
  <2>3. Accounted'
    BY <2>1 DEF IInv, Accounted, Listed, Given, Transient, Answer
  <2>4. Relied'
    <3>1. ASSUME NEW arena, NEW values, Before(arena, values)
          PROVE  Before(arena, values)'
      BY <2>1, <3>1 DEF Before
    <3>2. Before("result arena", {"result value"})'
      BY <3>1 DEF IInv, Relied
    <3>3. call.form \in Objects => Before("prepared arena", InPrepared)'
      BY <3>1 DEF IInv, Relied
    <3> QED  BY <2>1, <3>2, <3>3 DEF IInv, Relied
  <2> QED  BY <2>2, <2>3, <2>4 DEF IInv
<1> QED  BY <1>1, <1>2

LEMMA Inductive == Spec => []IInv
<1>1. Init => IInv
  BY Initially
<1>2. IInv /\ [Next]_vars => IInv'
  BY Step
<1> QED  BY <1>1, <1>2, PTL DEF Spec

-----------------------------------------------------------------------------
(* The theorems.                                                           *)

\* The casts to 'static of value.rs are sound, but for a JSON payload that is
\* rejected (finish of engine.rs): no value outlives all handles of its arena.
THEOREM ArenaKeptForValues == Spec => []OnlyRejectedJsonOutlivesArena
<1>1. ASSUME IInv, ~(call.form = "json" /\ verdict = "rejected"), NEW x \in owns, x \in Values
      PROVE  owns \cap ArenaHandles # {}
  <2>1. CASE call.form \in Objects
    BY <1>1, <2>1 DEF IInv, Relied, Objects, InPrepared, Values, ArenaHandles
  <2>2. CASE call.form = "malformed"
    BY <1>1, <2>2 DEF IInv, Relied, Values, ArenaHandles
  <2>3. CASE call.form = "json"
    <3>1. verdict \in {"none", "accepted"}
      BY <1>1, <2>3 DEF IInv, TypeOK
    <3>2. CASE verdict = "none"
      BY <1>1, <2>3, <3>2 DEF IInv, Relied, ArenaHandles
    <3>3. CASE verdict = "accepted"
      <4>1. pc \in {"validated", "answering", "returning", "returned", "raised"}
        BY <1>1, <2>3, <3>3 DEF IInv, TypeOK, Labels, Located
      <4>2. CASE pc = "validated"
        BY <1>1, <2>3, <4>2 DEF IInv, Relied, ArenaHandles
      <4>3. CASE pc \in {"answering", "raised"}
        BY <1>1, <3>3, <4>3 DEF IInv, Answered, ArenaHandles
      <4>4. CASE pc \in {"returning", "returned"}
        BY <1>1, <2>3, <4>4 DEF IInv, Accounted, Listed, Relied, Values, ArenaHandles
      <4> QED  BY <4>1, <4>2, <4>3, <4>4
    <3> QED  BY <3>1, <3>2, <3>3
  <2>4. call.form \in Forms
    BY <1>1 DEF IInv, TypeOK, Calls
  <2> QED  BY <2>1, <2>2, <2>3, <2>4, FormsAssumption DEF Objects
<1>2. IInv => OnlyRejectedJsonOutlivesArena
  BY <1>1 DEF OnlyRejectedJsonOutlivesArena, ArenaOutlivesValues
<1> QED  BY <1>2, Inductive, PTL

\* A call that returns (validate and build of lib.rs) has dropped all it owned.
THEOREM ReturnLeavesNothing == Spec => []ReturnReleasesAll
<1>1. IInv => ReturnReleasesAll
  BY DEF IInv, Accounted, ReturnReleasesAll
<1> QED  BY <1>1, Inductive, PTL

\* A call that raises after its payload is judged (raise_validation_error and
\* materialize_instance in lib.rs, an interrupt in ruby_helpers.rs) leaves the
\* result or the issues behind, and nothing of what they were made from.
THEOREM RaiseLeavesOutcome == Spec => []RaiseKeepsOnlyOutcome
<1>1. IInv => RaiseKeepsOnlyOutcome
  BY DEF IInv, RaisesKeep
<1> QED  BY <1>1, Inductive, PTL

\* An exception leaves an Arc of the schema (ir_arc in lib.rs) behind only if it
\* is an interrupt, and the payload is not judged yet.
THEOREM InterruptsKeepSchema == Spec => []OnlyInterruptsKeepSchema
<1>1. IInv => OnlyInterruptsKeepSchema
  BY DEF IInv, RaisesKeep
<1> QED  BY <1>1, Inductive, PTL
=============================================================================
