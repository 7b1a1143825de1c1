------------------------------ MODULE Graceful ------------------------------
(***************************************************************************)
(* pkg/shutdown: Graceful calls its steps one after the other with a        *)
(* context they share, which is done when the timeout is over or when the   *)
(* context of the caller is.  A step may fail, may take any time, and may   *)
(* ignore the context it is given.                                          *)
(***************************************************************************)
EXTENDS Integers, Sequences

CONSTANTS
  StepCount,   \* number of steps
  Honours,     \* the steps that return once the context is done
  Timeout,     \* the timeout, in ticks
  MaxOverrun   \* bound: ticks that are counted after the timeout

ASSUME GracefulAssumption ==
  /\ StepCount \in Nat /\ Timeout \in Nat /\ MaxOverrun \in Nat
  /\ Honours \subseteq 1..StepCount

VARIABLES
  pc,         \* where Graceful stands
  step,       \* index of the step being called, or to be called next
  called,     \* the steps called so far, in order
  errs,       \* the steps that returned an error, in order
  result,     \* what Graceful returned
  now,        \* ticks since the call of Graceful
  cancelled   \* whether the context of the caller is done

vars == <<pc, step, called, errs, result, now, cancelled>>

Init ==
  /\ pc = "idle"
  /\ step = 1
  /\ called = <<>>
  /\ errs = <<>>
  /\ result = "none"
  /\ now = 0
  /\ cancelled = FALSE

(* mutant: the timeout is lost                                              *)
WithoutTimeout == cancelled

ContextDone == cancelled \/ now >= Timeout

Start ==
  /\ pc = "idle"
  /\ pc' = "calling"
  /\ UNCHANGED <<step, called, errs, result, now, cancelled>>

(* The next step is called whatever the earlier ones did, and even if the   *)
(* context is done already.                                                 *)
CallStep ==
  /\ pc = "calling"
  /\ step <= StepCount
  /\ pc' = "inStep"
  /\ called' = Append(called, step)
  /\ UNCHANGED <<step, errs, result, now, cancelled>>

(* mutant: Graceful returns at the first error                              *)
StopsAtError(failed) ==
  /\ pc = "inStep"
  /\ pc' = "calling"
  /\ step' = IF failed THEN StepCount + 1 ELSE step + 1
  /\ errs' = IF failed THEN Append(errs, step) ELSE errs
  /\ UNCHANGED <<called, result, now, cancelled>>

StepReturns(failed) ==
  /\ pc = "inStep"
  /\ pc' = "calling"
  /\ step' = step + 1
  /\ errs' = IF failed THEN Append(errs, step) ELSE errs
  /\ UNCHANGED <<called, result, now, cancelled>>

Finish ==
  /\ pc = "calling"
  /\ step > StepCount
  /\ pc' = "returned"
  /\ result' = IF errs = <<>> THEN "nil" ELSE "error"
  /\ UNCHANGED <<step, called, errs, now, cancelled>>

(* The context of the caller is done. *)
Cancel ==
  /\ ~cancelled
  /\ cancelled' = TRUE
  /\ UNCHANGED <<pc, step, called, errs, result, now>>

(* Time passes in the steps.  One that honours the context returns at once  *)
(* when it is done; the other steps do as they like.                        *)
Tick ==
  /\ pc = "inStep"
  /\ ContextDone => step \notin Honours
  /\ now < Timeout + MaxOverrun
  /\ now' = now + 1
  /\ UNCHANGED <<pc, step, called, errs, result, cancelled>>

Next ==
  \/ Start
  \/ CallStep
  \/ \E failed \in BOOLEAN : StepReturns(failed)
  \/ Finish
  \/ Cancel
  \/ Tick

Spec == Init /\ [][Next]_vars

(* Nothing makes a step return but the context, if the step honours it.     *)
Fairness ==
  /\ WF_vars(CallStep)
  /\ WF_vars(Finish)
  /\ WF_vars(Tick)
  /\ WF_vars(/\ ContextDone /\ step \in Honours
             /\ \E failed \in BOOLEAN : StepReturns(failed))

FairSpec == Spec /\ Fairness

-----------------------------------------------------------------------------
TypeOK ==
  /\ pc \in {"idle", "calling", "inStep", "returned"}
  /\ step \in 1..(StepCount + 1)
  /\ called \in Seq(1..StepCount)
  /\ errs \in Seq(1..StepCount)
  /\ result \in {"none", "nil", "error"}
  /\ now \in 0..(Timeout + MaxOverrun)
  /\ cancelled \in BOOLEAN

(* "Every step runs even if an earlier one fails or times out"              *)
(* (shutdown.go:16): when Graceful has returned, each step was called once, *)
(* in order.                                                                *)
EveryStepRuns == pc = "returned" => called = [i \in 1..StepCount |-> i]

(* "a step that never finishes cannot hang the process" (shutdown.go:15-16).*)
GracefulReturns == pc = "calling" ~> pc = "returned"
=============================================================================
