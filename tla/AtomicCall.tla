----------------------------- MODULE AtomicCall -----------------------------
(***************************************************************************)
(* What Rustly::Core promises to the threads that call it: each call       *)
(* judges the payload as it is at one instant between the call and its     *)
(* answer, whatever other threads do to the payload meanwhile, and answers *)
(* with that judgement or is cut short.                                    *)
(***************************************************************************)
CONSTANTS
  Threads,
  Accepted, Rejected, Unsupported   \* the states of a payload, by judgement

Payloads == Accepted \cup Rejected \cup Unsupported

Judgement(p) == IF p \in Accepted THEN "accepted" ELSE "rejected"

\* A call may end without its judgement: an asynchronous exception cuts it
\* short, or the instance of an accepted payload cannot be made.
CutShort(judgement) ==
  {"interrupted"} \cup (IF judgement = "accepted" THEN {"failed"} ELSE {})

VARIABLES
  payload,    \* the Ruby object the threads share
  phase,      \* "idle", "called" or "judged", for each thread
  judged,     \* the judgement of the call in progress
  result      \* the answer of the last call that ended

vars == <<payload, phase, judged, result>>

Init ==
  /\ payload \in Payloads
  /\ phase = [t \in Threads |-> "idle"]
  /\ judged = [t \in Threads |-> "none"]
  /\ result = [t \in Threads |-> "none"]

Mutate ==
  /\ payload' \in Payloads
  /\ UNCHANGED <<phase, judged, result>>

Invoke(t) ==
  /\ phase[t] = "idle"
  /\ phase' = [phase EXCEPT ![t] = "called"]
  /\ result' = [result EXCEPT ![t] = "none"]
  /\ UNCHANGED <<payload, judged>>

Judge(t) ==
  /\ phase[t] = "called"
  /\ payload \notin Unsupported
  /\ phase' = [phase EXCEPT ![t] = "judged"]
  /\ judged' = [judged EXCEPT ![t] = Judgement(payload)]
  /\ UNCHANGED <<payload, result>>

Refuse(t) ==
  /\ phase[t] = "called"
  /\ payload \in Unsupported
  /\ phase' = [phase EXCEPT ![t] = "idle"]
  /\ result' = [result EXCEPT ![t] = "unsupported"]
  /\ UNCHANGED <<payload, judged>>

Answer(t) ==
  /\ phase[t] = "judged"
  /\ phase' = [phase EXCEPT ![t] = "idle"]
  /\ judged' = [judged EXCEPT ![t] = "none"]
  /\ \E r \in {judged[t]} \cup CutShort(judged[t]) :
       result' = [result EXCEPT ![t] = r]
  /\ UNCHANGED payload

Next == Mutate \/ \E t \in Threads : Invoke(t) \/ Judge(t) \/ Refuse(t) \/ Answer(t)

Spec == Init /\ [][Next]_vars
=============================================================================
