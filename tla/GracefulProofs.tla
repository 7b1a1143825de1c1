--------------------------- MODULE GracefulProofs ---------------------------
(***************************************************************************)
(* Proofs about Graceful, for any number of steps and any timeout.          *)
(***************************************************************************)
EXTENDS Graceful, TLAPS

(* The steps called are the first ones, in order: all those before step, and *)
(* step too while it runs.                                                   *)
CalledInOrder ==
  /\ Len(called) = IF pc = "inStep" THEN step ELSE step - 1
  /\ \A i \in 1..Len(called) : called[i] = i

(* What Graceful knows of step in each of its states.                        *)
StepInRange ==
  /\ pc = "idle" => step = 1
  /\ pc = "inStep" => step <= StepCount
  /\ pc = "returned" => step = StepCount + 1

Inv == TypeOK /\ StepInRange /\ CalledInOrder

LEMMA Initially == Init => Inv
<1> SUFFICES ASSUME Init PROVE Inv
  OBVIOUS
<1>1. /\ called \in Seq(1..StepCount) /\ Len(called) = 0
      /\ errs \in Seq(1..StepCount)
  BY DEF Init
<1>2. TypeOK
  <2>1. pc = "idle" /\ step = 1 /\ result = "none" /\ now = 0 /\ cancelled = FALSE
    BY DEF Init
  <2>2. step \in 1..(StepCount + 1) /\ now \in 0..(Timeout + MaxOverrun)
    BY <2>1, GracefulAssumption
  <2>3. pc \in {"idle", "calling", "inStep", "returned"}
    BY <2>1
  <2>4. result \in {"none", "nil", "error"}
    BY <2>1
  <2>5. cancelled \in BOOLEAN
    BY <2>1
  <2> QED
    BY <1>1, <2>2, <2>3, <2>4, <2>5 DEF TypeOK
<1>3. StepInRange /\ CalledInOrder
  BY <1>1, GracefulAssumption DEF Init, StepInRange, CalledInOrder
<1> QED
  BY <1>2, <1>3 DEF Inv

LEMMA Inductive == Inv /\ [Next]_vars => Inv'
<1> SUFFICES ASSUME Inv, [Next]_vars PROVE Inv'
  OBVIOUS
<1> USE GracefulAssumption DEF Inv, TypeOK, StepInRange, CalledInOrder
<1>1. CASE Start
  BY <1>1 DEF Start
<1>2. CASE CallStep
  <2>1. /\ called' \in Seq(1..StepCount)
        /\ Len(called') = step
        /\ \A i \in 1..step : called'[i] = i
    BY <1>2 DEF CallStep
  <2> QED
    BY <1>2, <2>1 DEF CallStep
<1>3. ASSUME NEW failed \in BOOLEAN, StepReturns(failed) PROVE Inv'
  <2>1. /\ pc = "inStep" /\ pc' = "calling" /\ step' = step + 1
        /\ UNCHANGED <<called, result, now, cancelled>>
    BY <1>3 DEF StepReturns
  <2>2. errs' \in Seq(1..StepCount)
    <3>1. CASE failed
      <4>1. errs' = Append(errs, step) /\ step \in 1..StepCount
        BY <1>3, <3>1 DEF StepReturns
      <4> QED
        BY <4>1
    <3>2. CASE ~failed
      BY <1>3, <3>2 DEF StepReturns
    <3> QED
      BY <3>1, <3>2
  <2> QED
    BY <2>1, <2>2
<1>4. CASE Finish
  BY <1>4 DEF Finish
<1>5. CASE Cancel
  BY <1>5 DEF Cancel
<1>6. CASE Tick
  BY <1>6 DEF Tick, ContextDone
<1>7. CASE UNCHANGED vars
  BY <1>7 DEF vars
<1> QED
  BY <1>1, <1>2, <1>3, <1>4, <1>5, <1>6, <1>7 DEF Next

LEMMA Always == Spec => []Inv
  BY Initially, Inductive, PTL DEF Spec

(* The state keeps its type.                                                 *)
THEOREM TypeCorrect == Spec => []TypeOK
<1>1. Inv => TypeOK
  BY DEF Inv
<1> QED
  BY <1>1, Always, PTL

(* shutdown.go:16: whatever the steps do, when Graceful returns it has       *)
(* called every one of them once and in order.                               *)
THEOREM NoStepSkipped == Spec => []EveryStepRuns
<1>1. Inv => EveryStepRuns
  <2> SUFFICES ASSUME Inv, pc = "returned"
               PROVE  called = [i \in 1..StepCount |-> i]
    BY DEF EveryStepRuns
  <2>1. /\ called \in Seq(1..StepCount)
        /\ Len(called) = StepCount
        /\ \A i \in 1..StepCount : called[i] = i
    BY GracefulAssumption DEF Inv, TypeOK, StepInRange, CalledInOrder
  <2>2. called = [i \in 1..StepCount |-> called[i]]
    BY <2>1
  <2> QED
    BY <2>1, <2>2
<1> QED
  BY <1>1, Always, PTL
=============================================================================
