----------------------------- MODULE NativeCall -----------------------------
(***************************************************************************)
(* The calls of Rustly::Core.build, build_synced and validate made by the  *)
(* threads of one Ruby process (lib.rs and ruby_helpers.rs): who holds the *)
(* GVL, what SKIP_GVL does, where a thread may be interrupted, and what    *)
(* each call answers about a payload that other threads mutate.            *)
(*                                                                         *)
(* A step of a thread is what it does between two points where another     *)
(* thread may run: everything under the GVL up to the next place where     *)
(* Ruby checks for interrupts, or the validation outside the GVL.          *)
(***************************************************************************)
CONSTANTS
  Threads, Accepted, Rejected, Unsupported,
  Free        \* no thread holds the GVL

Payloads == Accepted \cup Rejected \cup Unsupported
Judgement(p) == IF p \in Accepted THEN "accepted" ELSE "rejected"

ASSUME FreeAssumption == Free \notin Threads

Entries == {"build", "build_synced", "validate"}
Results == {"none", "accepted", "rejected", "unsupported", "interrupted", "failed"}

VARIABLES
  gvl,        \* the thread that holds the GVL, or Free
  payload,    \* the Ruby object the threads share, mutated by Ruby code
  pc,         \* "ruby", "called", "prepared", "native", "back" or "judged"
  entry,      \* the entry point of the call in progress
  seen,       \* the copy of the payload prepare_input made for the call
  verdict,    \* the ValidationResult of the call
  skip,       \* SKIP_GVL, a thread-local flag
  pending,    \* an asynchronous exception waits for the thread
  result      \* how the last call of the thread ended

vars == <<gvl, payload, pc, entry, seen, verdict, skip, pending, result>>

Goto(t, label) == pc' = [pc EXCEPT ![t] = label]

\* The call ends, by a return or by an exception: the thread is back in Ruby.
End(t, how) == Goto(t, "ruby") /\ result' = [result EXCEPT ![t] = how]

Init ==
  /\ gvl = Free
  /\ payload \in Payloads
  /\ pc = [t \in Threads |-> "ruby"]
  /\ entry \in [Threads -> {"build"}]
  /\ seen \in [Threads -> {payload}]
  /\ verdict = [t \in Threads |-> "none"]
  /\ skip = [t \in Threads |-> FALSE]
  /\ pending = [t \in Threads |-> FALSE]
  /\ result = [t \in Threads |-> "none"]

\* The flag as call_without_gvl reads it: execute_with_gvl has set it when
\* the call is build_synced.
Skips(t) == skip[t] \/ entry[t] = "build_synced"

\* Where a call lets Ruby check for interrupts: on both sides of
\* rb_thread_call_without_gvl, and in the Ruby code that materialises the
\* instance or makes the exception.
ChecksInterrupts(t) ==
  \/ pc[t] = "prepared" /\ ~Skips(t)
  \/ pc[t] = "back"
  \/ pc[t] = "judged" /\ entry[t] # "validate"

(***************************************************************************)
(* Ruby: the scheduler, and what Ruby code does between the calls.         *)
(***************************************************************************)
Acquire(t) ==
  /\ gvl = Free
  /\ pc[t] # "native"
  /\ gvl' = t
  /\ UNCHANGED <<payload, pc, entry, seen, verdict, skip, pending, result>>

\* The end of a time slice: Ruby code lets another thread run, and so does a
\* native call where it checks for interrupts.
Yield(t) ==
  /\ gvl = t
  /\ pc[t] = "ruby" \/ ChecksInterrupts(t)
  /\ gvl' = Free
  /\ UNCHANGED <<payload, pc, entry, seen, verdict, skip, pending, result>>

Mutate(t) ==
  /\ gvl = t /\ pc[t] = "ruby"
  /\ payload' \in Payloads
  /\ UNCHANGED <<gvl, pc, entry, seen, verdict, skip, pending, result>>

\* Thread#raise: the unblock function is empty, so a validation in progress
\* runs to its end.
Interrupt(t, u) ==
  /\ gvl = t /\ pc[t] = "ruby" /\ t # u
  /\ pending' = [pending EXCEPT ![u] = TRUE]
  /\ UNCHANGED <<gvl, payload, pc, entry, seen, verdict, skip, result>>

Rescue(t) ==
  /\ gvl = t /\ pc[t] = "ruby" /\ pending[t]
  /\ pending' = [pending EXCEPT ![t] = FALSE]
  /\ UNCHANGED <<gvl, payload, pc, entry, seen, verdict, skip, result>>

(***************************************************************************)
(* A call.                                                                 *)
(***************************************************************************)
Call(t, e) ==
  /\ gvl = t /\ pc[t] = "ruby"
  /\ Goto(t, "called")
  /\ entry' = [entry EXCEPT ![t] = e]
  /\ result' = [result EXCEPT ![t] = "none"]
  /\ UNCHANGED <<gvl, payload, seen, verdict, skip, pending>>

\* prepare_input: the payload is copied into Rust memory under the GVL.  A
\* type it does not support raises, or is reported by validate.
Prepare(t) ==
  /\ gvl = t /\ pc[t] = "called"
  /\ \/ /\ payload \in Unsupported
        /\ End(t, "unsupported")
        /\ UNCHANGED seen
     \/ /\ payload \notin Unsupported
        /\ Goto(t, "prepared")
        /\ seen' = [seen EXCEPT ![t] = payload]
        /\ UNCHANGED result
  /\ UNCHANGED <<gvl, payload, entry, verdict, skip, pending>>

\* call_without_gvl with the flag set: the validation runs under the GVL.
KeepGvl(t) ==
  /\ gvl = t /\ pc[t] = "prepared" /\ Skips(t)
  /\ skip' = [skip EXCEPT ![t] = TRUE]
  /\ Goto(t, "native")
  /\ UNCHANGED <<gvl, payload, entry, seen, verdict, pending, result>>

\* rb_thread_call_without_gvl checks for interrupts, then releases the GVL.
ReleaseGvl(t) ==
  /\ gvl = t /\ pc[t] = "prepared" /\ ~Skips(t)
  /\ ~pending[t]
  /\ gvl' = Free
  /\ Goto(t, "native")
  /\ UNCHANGED <<payload, entry, seen, verdict, skip, pending, result>>

\* An exception that is pending at a check for interrupts is raised there.
RaisePending(t) ==
  /\ gvl = t /\ pending[t] /\ ChecksInterrupts(t)
  /\ End(t, "interrupted")
  /\ pending' = [pending EXCEPT ![t] = FALSE]
  /\ verdict' = [verdict EXCEPT ![t] = "none"]
  /\ UNCHANGED <<gvl, payload, entry, seen, skip>>

\* Mutant: the validation reads the payload, not the copy.
ValidateOutsideLive(t) ==
  /\ pc[t] = "native" /\ ~skip[t]
  /\ payload \notin Unsupported
  /\ verdict' = [verdict EXCEPT ![t] = Judgement(payload)]
  /\ Goto(t, "back")
  /\ UNCHANGED <<gvl, payload, entry, seen, skip, pending, result>>

\* Mutant: the closure hands back its input instead of the result.
ValidateOutsideUnjudged(t) ==
  /\ pc[t] = "native" /\ ~skip[t]
  /\ verdict' = [verdict EXCEPT ![t] = seen[t]]
  /\ Goto(t, "back")
  /\ UNCHANGED <<gvl, payload, entry, seen, skip, pending, result>>

\* validate_prepared_input, on the copy.
ValidateOutside(t) ==
  /\ pc[t] = "native" /\ ~skip[t]
  /\ verdict' = [verdict EXCEPT ![t] = Judgement(seen[t])]
  /\ Goto(t, "back")
  /\ UNCHANGED <<gvl, payload, entry, seen, skip, pending, result>>

\* Mutant: execute_with_gvl leaves the flag set.
ValidateInsideStuck(t) ==
  /\ gvl = t /\ pc[t] = "native" /\ skip[t]
  /\ verdict' = [verdict EXCEPT ![t] = Judgement(seen[t])]
  /\ Goto(t, "judged")
  /\ UNCHANGED <<gvl, payload, entry, seen, skip, pending, result>>

\* Mutant: a rejected payload is tried again, and the GVL never given up.
ValidateInsideAgain(t) ==
  /\ gvl = t /\ pc[t] = "native" /\ skip[t]
  /\ Goto(t, IF seen[t] \in Accepted THEN "judged" ELSE "prepared")
  /\ verdict' = [verdict EXCEPT ![t] = Judgement(seen[t])]
  /\ skip' = [skip EXCEPT ![t] = FALSE]
  /\ UNCHANGED <<gvl, payload, entry, seen, pending, result>>

\* The same under the GVL; execute_with_gvl puts the flag back, which was
\* not set before it.
ValidateInside(t) ==
  /\ gvl = t /\ pc[t] = "native" /\ skip[t]
  /\ verdict' = [verdict EXCEPT ![t] = Judgement(seen[t])]
  /\ skip' = [skip EXCEPT ![t] = FALSE]
  /\ Goto(t, "judged")
  /\ UNCHANGED <<gvl, payload, entry, seen, pending, result>>

\* Mutant: the validation starts again when the GVL is held again.
ResumeAgain(t) ==
  /\ gvl = t /\ pc[t] = "back" /\ ~pending[t]
  /\ Goto(t, "prepared")
  /\ UNCHANGED <<gvl, payload, entry, seen, verdict, skip, pending, result>>

\* The GVL is held again and nothing is pending.
Resume(t) ==
  /\ gvl = t /\ pc[t] = "back" /\ ~pending[t]
  /\ Goto(t, "judged")
  /\ UNCHANGED <<gvl, payload, entry, seen, verdict, skip, pending, result>>

\* The result is reported, or raised, or materialised; a Ruby call made by
\* materialize_instance, or materialize_instance itself, may fail.
Deliver(t) ==
  /\ gvl = t /\ pc[t] = "judged"
  /\ \/ End(t, verdict[t])
     \/ verdict[t] = "accepted" /\ entry[t] # "validate" /\ End(t, "failed")
  /\ verdict' = [verdict EXCEPT ![t] = "none"]
  /\ UNCHANGED <<gvl, payload, entry, seen, skip, pending>>

Native(t) ==
  \/ Prepare(t) \/ KeepGvl(t) \/ ReleaseGvl(t) \/ RaisePending(t)
  \/ ValidateOutside(t) \/ ValidateInside(t) \/ Resume(t) \/ Deliver(t)

Next ==
  \E t \in Threads :
    \/ Acquire(t) \/ Yield(t) \/ Mutate(t) \/ Rescue(t) \/ Native(t)
    \/ \E u \in Threads : Interrupt(t, u)
    \/ \E e \in Entries : Call(t, e)

\* A slice is long enough for native code to go on, at least every now and
\* then; Ruby's timer ends the slice of a thread that others wait for, and
\* its queue of waiters serves every one of them.
Fairness ==
  \A t \in Threads :
    SF_vars(Native(t)) /\ SF_vars(Acquire(t)) /\ SF_vars(Yield(t))

Spec == Init /\ [][Next]_vars /\ Fairness

-----------------------------------------------------------------------------
TypeOK ==
  /\ gvl \in Threads \cup {Free}
  /\ payload \in Payloads
  /\ pc \in [Threads -> {"ruby", "called", "prepared", "native", "back", "judged"}]
  /\ entry \in [Threads -> Entries]
  /\ seen \in [Threads -> Payloads]
  /\ verdict \in [Threads -> {"none", "accepted", "rejected"}]
  /\ skip \in [Threads -> BOOLEAN]
  /\ pending \in [Threads -> BOOLEAN]
  /\ result \in [Threads -> Results]

\* README: payloads are validated outside the GVL.  So is every build and
\* every validate, also after a build_synced on the same thread, whose whole
\* validation is under the GVL.
GvlDuringValidation ==
  \A t \in Threads : pc[t] = "native" =>
    (gvl = t <=> entry[t] = "build_synced")

\* What a call looks like from outside: it is judged from the moment its
\* payload has been copied.
PhaseOf(t) ==
  IF pc[t] = "ruby" THEN "idle" ELSE IF pc[t] = "called" THEN "called" ELSE "judged"
JudgedOf(t) == IF PhaseOf(t) = "judged" THEN Judgement(seen[t]) ELSE "none"

\* Every call judges the payload as it was at one instant during the call
\* (when prepare_input copied it): no mutation by another thread while the
\* GVL is released is seen by half a validation or by the materialisation.
Atomic == INSTANCE AtomicCall WITH
  phase <- [t \in Threads |-> PhaseOf(t)], judged <- [t \in Threads |-> JudgedOf(t)]
AtomicSpec == Atomic!Spec

\* Every call ends, and no thread that validates, or that waits, keeps
\* another from the GVL for ever.
CallsEnd == \A t \in Threads : pc[t] = "called" ~> pc[t] = "ruby"
EveryThreadRuns == \A t \in Threads : []<>(gvl = t \/ pc[t] = "native")
=============================================================================
