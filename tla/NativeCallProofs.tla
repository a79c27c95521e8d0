-------------------------- MODULE NativeCallProofs --------------------------
(***************************************************************************)
(* For any threads and any payloads: who holds the GVL during a validation *)
(* and the atomicity of every call.  Fairness plays no part here.          *)
(***************************************************************************)
EXTENDS NativeCall, TLAPS

\* SKIP_GVL is set only inside execute_with_gvl: the thread then holds the
\* GVL, and the call is build_synced.
SkipIsScoped ==
  \A t \in Threads :
    /\ skip[t] => pc[t] = "native"
    /\ pc[t] = "native" => /\ skip[t] <=> entry[t] = "build_synced"
                           /\ skip[t] <=> gvl = t

\* A verdict is a judgement of the copy, and is there when it is needed.
VerdictOfCopy ==
  \A t \in Threads : pc[t] \in {"back", "judged"} => verdict[t] = Judgement(seen[t])

IInv == TypeOK /\ SkipIsScoped /\ VerdictOfCopy

\* The GVL invariant is a part of the inductive one.
LEMMA GvlFromSkip == SkipIsScoped => GvlDuringValidation
BY DEF SkipIsScoped, GvlDuringValidation

LEMMA InitIInv == Init => IInv
<1> SUFFICES ASSUME Init PROVE IInv  OBVIOUS
<1>1. TypeOK
  BY DEF Init, TypeOK, Entries, Results, Payloads
<1>2. SkipIsScoped /\ VerdictOfCopy
  BY DEF Init, SkipIsScoped, VerdictOfCopy
<1> QED  BY <1>1, <1>2 DEF IInv

\* The steps of the scheduler and of Ruby code.
LEMMA RubySteps ==
  ASSUME IInv, NEW t \in Threads, NEW u \in Threads, NEW e \in Entries,
         \/ Acquire(t) \/ Yield(t) \/ Mutate(t) \/ Rescue(t)
         \/ Interrupt(t, u) \/ Call(t, e)
  PROVE  IInv'
<1> USE FreeAssumption DEF IInv, TypeOK, SkipIsScoped, VerdictOfCopy
<1>1. CASE Acquire(t)
  BY <1>1 DEF Acquire
<1>2. CASE Yield(t)
  BY <1>2 DEF Yield, ChecksInterrupts
<1>3. CASE Mutate(t)
  BY <1>3 DEF Mutate
<1>4. CASE Rescue(t)
  BY <1>4 DEF Rescue
<1>5. CASE Interrupt(t, u)
  BY <1>5 DEF Interrupt
<1>6. CASE Call(t, e)
  BY <1>6 DEF Call, Goto, Results
<1> QED  BY <1>1, <1>2, <1>3, <1>4, <1>5, <1>6

\* The steps of a call.
LEMMA NativeSteps ==
  ASSUME IInv, NEW t \in Threads, Native(t)
  PROVE  IInv'
<1> USE FreeAssumption DEF IInv, TypeOK, SkipIsScoped, VerdictOfCopy
<1>1. CASE Prepare(t)
  BY <1>1 DEF Prepare, Goto, End, Results
<1>2. CASE KeepGvl(t)
  BY <1>2 DEF KeepGvl, Goto, Skips
<1>3. CASE ReleaseGvl(t)
  BY <1>3 DEF ReleaseGvl, Goto, Skips
<1>4. CASE RaisePending(t)
  BY <1>4 DEF RaisePending, ChecksInterrupts, Goto, End, Results
<1>5. CASE ValidateOutside(t)
  BY <1>5 DEF ValidateOutside, Goto, Judgement
<1>6. CASE ValidateInside(t)
  BY <1>6 DEF ValidateInside, Goto, Judgement
<1>7. CASE Resume(t)
  BY <1>7 DEF Resume, Goto
<1>8. CASE Deliver(t)
  BY <1>8 DEF Deliver, Goto, End, Results
<1> QED  BY <1>1, <1>2, <1>3, <1>4, <1>5, <1>6, <1>7, <1>8 DEF Native

LEMMA StepIInv == IInv /\ [Next]_vars => IInv'
<1> SUFFICES ASSUME IInv, [Next]_vars PROVE IInv'  OBVIOUS
<1>1. CASE Next
  BY <1>1, RubySteps, NativeSteps DEF Next, Entries
<1>2. CASE UNCHANGED vars
  BY <1>2 DEF vars, IInv, TypeOK, SkipIsScoped, VerdictOfCopy
<1> QED  BY <1>1, <1>2

LEMMA Inductive == Spec => []IInv
BY InitIInv, StepIInv, PTL DEF Spec

\* The type invariant of the calls.
THEOREM TypeCorrect == Spec => []TypeOK
BY Inductive, PTL DEF IInv

\* call_without_gvl and execute_with_gvl: a thread validates without the GVL,
\* unless its call is build_synced, which never gives it up.
THEOREM GvlIsReleased == Spec => []GvlDuringValidation
BY Inductive, GvlFromSkip, PTL DEF IInv

-----------------------------------------------------------------------------
\* Every step of NativeCall is a step of AtomicCall or a stutter.
LEMMA InitRefines == Init => Atomic!Init
BY DEF Init, Atomic!Init, Payloads, Atomic!Payloads, PhaseOf, JudgedOf

\* The scheduler and Ruby code: nothing, a mutation, or a new call.
LEMMA RubyRefines ==
  ASSUME IInv, NEW t \in Threads, NEW u \in Threads, NEW e \in Entries,
         \/ Acquire(t) \/ Yield(t) \/ Mutate(t) \/ Rescue(t)
         \/ Interrupt(t, u) \/ Call(t, e)
  PROVE  [Atomic!Next]_(Atomic!vars)
<1> USE DEF IInv, TypeOK, PhaseOf, JudgedOf
<1>1. CASE Acquire(t) \/ Yield(t) \/ Rescue(t) \/ Interrupt(t, u)
  BY <1>1 DEF Acquire, Yield, Rescue, Interrupt, Atomic!vars
<1>2. CASE Mutate(t)
  <2>1. Atomic!Mutate
    BY <1>2 DEF Mutate, Atomic!Mutate, Payloads, Atomic!Payloads
  <2> QED  BY <2>1 DEF Atomic!Next
<1>3. CASE Call(t, e)
  <2>1. Atomic!Invoke(t)
    BY <1>3 DEF Call, Goto, Atomic!Invoke
  <2> QED  BY <2>1 DEF Atomic!Next
<1> QED  BY <1>1, <1>2, <1>3

\* A call: it judges when it copies the payload, and answers when it ends.
LEMMA NativeRefines ==
  ASSUME IInv, NEW t \in Threads, Native(t)
  PROVE  [Atomic!Next]_(Atomic!vars)
<1> USE DEF IInv, TypeOK, PhaseOf, JudgedOf
<1>1. CASE Prepare(t)
  <2>1. CASE payload \in Unsupported
    <3>1. /\ pc[t] = "called" /\ pc' = [pc EXCEPT ![t] = "ruby"]
          /\ result' = [result EXCEPT ![t] = "unsupported"]
          /\ UNCHANGED <<payload, seen>>
      BY <1>1, <2>1 DEF Prepare, Goto, End
    <3>2. \A v \in Threads : PhaseOf(v)' = IF v = t THEN "idle" ELSE PhaseOf(v)
      BY <3>1
    <3>3. \A v \in Threads : JudgedOf(v)' = JudgedOf(v)
      BY <3>1
    <3>4. Atomic!Refuse(t)
      <4> HIDE DEF IInv, TypeOK, JudgedOf
      <4> QED  BY <2>1, <3>1, <3>2, <3>3 DEF Atomic!Refuse
    <3> QED  BY <3>4 DEF Atomic!Next
  <2>2. CASE payload \notin Unsupported
    <3>1. /\ pc[t] = "called" /\ pc' = [pc EXCEPT ![t] = "prepared"]
          /\ seen' = [seen EXCEPT ![t] = payload]
          /\ UNCHANGED <<payload, result>>
      BY <1>1, <2>2 DEF Prepare, Goto
    <3>2. \A v \in Threads : PhaseOf(v)' = IF v = t THEN "judged" ELSE PhaseOf(v)
      BY <3>1
    <3>3. \A v \in Threads : JudgedOf(v)' = IF v = t THEN Judgement(payload) ELSE JudgedOf(v)
      BY <3>1
    <3>4. Judgement(payload) = Atomic!Judgement(payload)
      BY DEF Judgement, Atomic!Judgement
    <3>5. Atomic!Judge(t)
      <4> HIDE DEF IInv, TypeOK, JudgedOf
      <4> QED  BY <2>2, <3>1, <3>2, <3>3, <3>4 DEF Atomic!Judge
    <3> QED  BY <3>5 DEF Atomic!Next
  <2> QED  BY <2>1, <2>2
<1>2. CASE KeepGvl(t) \/ ReleaseGvl(t) \/ ValidateOutside(t) \/ ValidateInside(t) \/ Resume(t)
  BY <1>2 DEF KeepGvl, ReleaseGvl, ValidateOutside, ValidateInside, Resume, Goto, Atomic!vars
<1>3. CASE RaisePending(t)
  <2>1. Atomic!Answer(t)
    BY <1>3 DEF RaisePending, ChecksInterrupts, Goto, End, Atomic!Answer, Atomic!CutShort
  <2> QED  BY <2>1 DEF Atomic!Next
<1>4. CASE Deliver(t)
  <2>1. verdict[t] = Judgement(seen[t])
    BY <1>4 DEF Deliver, VerdictOfCopy
  <2>2. Atomic!Answer(t)
    BY <1>4, <2>1 DEF Deliver, Goto, End, Atomic!Answer, Atomic!CutShort
  <2> QED  BY <2>2 DEF Atomic!Next
<1> QED  BY <1>1, <1>2, <1>3, <1>4 DEF Native

LEMMA StepRefines == IInv /\ [Next]_vars => [Atomic!Next]_(Atomic!vars)
<1> SUFFICES ASSUME IInv, [Next]_vars PROVE [Atomic!Next]_(Atomic!vars)  OBVIOUS
<1>1. CASE Next
  BY <1>1, RubyRefines, NativeRefines DEF Next, Entries
<1>2. CASE UNCHANGED vars
  BY <1>2 DEF vars, Atomic!vars, PhaseOf, JudgedOf
<1> QED  BY <1>1, <1>2

\* Every call answers with the judgement of the payload at one instant of the
\* call, whatever other threads do to it while the GVL is released.
THEOREM CallsAreAtomic == Spec => AtomicSpec
BY InitRefines, StepRefines, Inductive, PTL DEF Spec, AtomicSpec, Atomic!Spec
=============================================================================
