--------------------------- MODULE ServiceProofs ----------------------------
(***************************************************************************)
(* Proofs about Service, for any requests and any timeout: it is a run of   *)
(* Graceful, so that what is proved of Graceful holds of it, and the order  *)
(* of the two steps keeps the database open under the requests.             *)
(***************************************************************************)
EXTENDS Service, GracefulProofs

USE DEF StopServer, CloseDB

LEMMA InitRunsGraceful == ServiceInit => Init
  BY DEF ServiceInit

LEMMA StepRunsGraceful == [ServiceNext]_serviceVars => [Next]_vars
<1> SUFFICES ASSUME [ServiceNext]_serviceVars PROVE [Next]_vars
  OBVIOUS
<1>1. CASE Goroutine \/ AcceptFails \/ Watcher \/ Clients \/ Signal \/ UNCHANGED serviceVars
  BY <1>1 DEF Goroutine, Bind, BindFails, AcceptFails, ServerClosed, ServeReturns,
              Watcher, Watch, InterruptMain, Clients, Accept, Answer, Signal, serviceVars
<1>2. CASE Main
  <2>1. \/ Start \/ CallStep \/ Finish \/ UNCHANGED vars
        \/ \E failed \in BOOLEAN : StepReturns(failed)
    BY <1>2 DEF Main, MainInterrupted, StepBegins, ServerStopped,
                DatabaseClosed, GracefulDone, Exit
  <2> QED
    BY <2>1 DEF Next
<1>3. CASE TimePasses
  BY <1>3 DEF TimePasses, Next
<1> QED
  BY <1>1, <1>2, <1>3 DEF ServiceNext

(* examples/httpserver/main.go: every behaviour of the service is one of     *)
(* Graceful.  Its fairness is that of the service as far as the steps honour*)
(* the context, and not part of this.                                       *)
THEOREM ServiceRunsGraceful == ServiceSpec => Spec
  BY InitRunsGraceful, StepRunsGraceful, PTL DEF ServiceSpec, Spec

(* Both steps of the service are called, in order, before main goes on,     *)
(* whatever the requests do (shutdown.go:16).                               *)
THEOREM ServiceStepsRun == ServiceSpec => []EveryStepRuns
  BY ServiceRunsGraceful, NoStepSkipped, PTL

-----------------------------------------------------------------------------
LEMMA TypeInit == ServiceInit => ServerTypeOK
<1> SUFFICES ASSUME ServiceInit PROVE ServerTypeOK
  OBVIOUS
<1> USE DEF ServiceInit
<1>1. serve \in {"starting", "serving", "returned"}
      /\ watcher \in {"waiting", "sending", "done"}
  OBVIOUS
<1>2. stopping \in BOOLEAN
  OBVIOUS
<1>3. tracing \in BOOLEAN /\ dbOpen \in BOOLEAN /\ exited \in BOOLEAN
  OBVIOUS
<1>4. /\ listener \in Seq({"error", "ErrServerClosed"}) /\ Len(listener) <= 1
      /\ active \subseteq Requests /\ answered \subseteq Requests
      /\ interrupt \in 0..1
  OBVIOUS
<1> QED
  BY <1>1, <1>2, <1>3, <1>4 DEF ServerTypeOK

(* The channel of the listener: only ServeReturns and Watch use it. *)
LEMMA ListenerTyped ==
  ASSUME ServerTypeOK, [ServiceNext]_serviceVars
  PROVE  listener' \in Seq({"error", "ErrServerClosed"}) /\ Len(listener') <= 1
<1> USE DEF ServerTypeOK
<1>1. CASE UNCHANGED listener
  BY <1>1
<1>2. ASSUME NEW err \in {"error", "ErrServerClosed"}, ServeReturns(err)
      PROVE  listener' \in Seq({"error", "ErrServerClosed"}) /\ Len(listener') <= 1
  <2>1. listener' = Append(listener, err) /\ Len(listener) < 1
    BY <1>2 DEF ServeReturns
  <2>2. Len(listener') = Len(listener) + 1
    BY <2>1
  <2> QED
    BY <2>1, <2>2
<1>3. CASE Watch
  <2>1. listener # <<>> /\ listener' = Tail(listener)
    BY <1>3 DEF Watch
  <2>2. listener' \in Seq({"error", "ErrServerClosed"})
    BY <2>1
  <2>3. Len(listener') = Len(listener) - 1
    BY <2>1
  <2> QED
    BY <2>2, <2>3
<1>4. CASE Main
  BY <1>1, <1>4 DEF Main, MainInterrupted, StepBegins, ServerStopped,
                    DatabaseClosed, GracefulDone, Exit, server
<1>5. CASE Clients \/ Signal \/ TimePasses \/ UNCHANGED serviceVars
  BY <1>1, <1>5 DEF Clients, Accept, Answer, Signal, TimePasses, serviceVars, server
<1>6. CASE Watcher
  BY <1>1, <1>3, <1>6 DEF Watcher, InterruptMain, server
<1>7. CASE Goroutine \/ AcceptFails
  BY <1>1, <1>2, <1>7 DEF Goroutine, Bind, BindFails, AcceptFails, ServerClosed
<1> QED
  BY <1>4, <1>5, <1>6, <1>7 DEF ServiceNext

(* The channel of main holds one signal. *)
LEMMA InterruptTyped ==
  ASSUME ServerTypeOK, [ServiceNext]_serviceVars PROVE interrupt' \in 0..1
<1>1. interrupt \in 0..1
  BY DEF ServerTypeOK
<1>2. \/ interrupt' = interrupt
      \/ interrupt < 1 /\ interrupt' = interrupt + 1
      \/ interrupt > 0 /\ interrupt' = interrupt - 1
  <2>1. CASE Main
    BY <2>1 DEF Main, MainInterrupted, StepBegins, ServerStopped,
                DatabaseClosed, GracefulDone, Exit
  <2>2. CASE Clients \/ Signal \/ TimePasses \/ UNCHANGED serviceVars
    BY <2>2 DEF Clients, Accept, Answer, Signal, TimePasses, serviceVars
  <2>3. CASE Goroutine \/ AcceptFails \/ Watcher
    BY <2>3 DEF Watcher, Watch, InterruptMain, Goroutine, Bind, BindFails, AcceptFails,
                ServerClosed, ServeReturns
  <2> QED
    BY <2>1, <2>2, <2>3 DEF ServiceNext
<1> QED
  BY <1>1, <1>2

LEMMA TypeNext == ServerTypeOK /\ [ServiceNext]_serviceVars => ServerTypeOK'
<1> SUFFICES ASSUME ServerTypeOK, [ServiceNext]_serviceVars PROVE ServerTypeOK'
  OBVIOUS
<1>1. /\ serve' \in {"starting", "serving", "returned"}
      /\ watcher' \in {"waiting", "sending", "done"}
  <2> USE DEF ServerTypeOK
  <2>1. CASE Main
    BY <2>1 DEF Main, MainInterrupted, StepBegins, ServerStopped,
                DatabaseClosed, GracefulDone, Exit, server
  <2>2. CASE Clients \/ Signal \/ TimePasses \/ UNCHANGED serviceVars
    BY <2>2 DEF Clients, Accept, Answer, Signal, TimePasses, serviceVars, server
  <2>3. CASE Goroutine \/ AcceptFails \/ Watcher
    BY <2>3 DEF Watcher, Watch, InterruptMain, Goroutine, Bind, BindFails, AcceptFails,
                ServerClosed, ServeReturns, server
  <2> QED
    BY <2>1, <2>2, <2>3 DEF ServiceNext
<1>2. active' \subseteq Requests /\ answered' \subseteq Requests
  <2> USE DEF ServerTypeOK
  <2>1. CASE Main
    BY <2>1 DEF Main, MainInterrupted, StepBegins, ServerStopped,
                DatabaseClosed, GracefulDone, Exit, server
  <2>2. CASE Clients \/ Signal \/ TimePasses \/ UNCHANGED serviceVars
    BY <2>2 DEF Clients, Accept, Answer, Signal, TimePasses, serviceVars, server
  <2>3. CASE Goroutine \/ AcceptFails \/ Watcher
    BY <2>3 DEF Watcher, Watch, InterruptMain, Goroutine, Bind, BindFails, AcceptFails,
                ServerClosed, ServeReturns, server
  <2> QED
    BY <2>1, <2>2, <2>3 DEF ServiceNext
<1>3. /\ stopping' \in BOOLEAN /\ tracing' \in BOOLEAN
      /\ dbOpen' \in BOOLEAN /\ exited' \in BOOLEAN
  <2>1. /\ stopping \in BOOLEAN /\ tracing \in BOOLEAN
        /\ dbOpen \in BOOLEAN /\ exited \in BOOLEAN
    BY DEF ServerTypeOK
  <2>2. CASE Main
    <3>1. \/ StepBegins
          \/ UNCHANGED <<stopping, tracing, dbOpen, exited>>
          \/ UNCHANGED <<stopping, tracing, dbOpen>> /\ exited' = TRUE
      BY <2>2 DEF Main, MainInterrupted, ServerStopped, DatabaseClosed,
                  GracefulDone, Exit, server
    <3> QED
      BY <2>1, <3>1 DEF StepBegins
  <2>3. CASE Clients \/ Signal \/ TimePasses \/ UNCHANGED serviceVars
    BY <2>1, <2>3 DEF Clients, Accept, Answer, Signal, TimePasses, serviceVars, server
  <2>4. CASE Goroutine \/ AcceptFails \/ Watcher
    BY <2>1, <2>4 DEF Watcher, Watch, InterruptMain, Goroutine, Bind, BindFails, AcceptFails,
                      ServerClosed, ServeReturns, server
  <2> QED
    BY <2>2, <2>3, <2>4 DEF ServiceNext
<1> QED
  BY <1>1, <1>2, <1>3, ListenerTyped, InterruptTyped DEF ServerTypeOK

(* The state of the service keeps its type: the channel of the listener and *)
(* that of the signals never hold more than one element (server.go:103).    *)
THEOREM ServiceTypeCorrect == ServiceSpec => []ServiceTypeOK
<1>1. ServiceSpec => []ServerTypeOK
  BY TypeInit, TypeNext, PTL DEF ServiceSpec
<1>2. ServiceSpec => []TypeOK
  BY ServiceRunsGraceful, TypeCorrect
<1>3. TypeOK /\ ServerTypeOK => ServiceTypeOK
  BY DEF ServiceTypeOK
<1> QED
  BY <1>1, <1>2, <1>3, PTL

-----------------------------------------------------------------------------
(* From the call of the first step on, the server accepts nothing. *)
Stopped == step > StopServer \/ pc = "inStep" => stopping

(* Behind the first step, the requests are answered or the time is over. *)
Drained == step > StopServer => active = {} \/ ContextDone

ClosedBehind == ~dbOpen => step > StopServer

(* A server that did not drain has left an error. *)
ErrorLeft == step > StopServer /\ errs = <<>> => active = {}

NilKnown == result = "nil" => errs = <<>> /\ pc = "returned"

ServiceInv == /\ Inv
              /\ Stopped
              /\ Drained
              /\ ClosedBehind
              /\ ErrorLeft
              /\ NilKnown

LEMMA ServiceInitially == ServiceInit => ServiceInv
<1> SUFFICES ASSUME ServiceInit PROVE ServiceInv
  OBVIOUS
<1>1. Inv
  BY InitRunsGraceful, Initially
<1> QED
  BY <1>1 DEF ServiceInit, Init, ServiceInv, Stopped, Drained, ClosedBehind,
              ErrorLeft, NilKnown

(* What leaves main and its steps alone, and accepts no request. *)
LEMMA Outside ==
  ASSUME ServiceInv, UNCHANGED vars, UNCHANGED <<stopping, dbOpen>>,
         active' \subseteq active
  PROVE  ServiceInv'
<1>1. Inv'
  BY Inductive DEF ServiceInv
<1>2. UNCHANGED <<step, pc, errs, result, now, cancelled>>
  BY DEF vars
<1> QED
  BY <1>1, <1>2 DEF ServiceInv, Stopped, Drained, ClosedBehind, ErrorLeft,
                    NilKnown, ContextDone

LEMMA ServiceInductive == ServiceInv /\ [ServiceNext]_serviceVars => ServiceInv'
<1> SUFFICES ASSUME ServiceInv, [ServiceNext]_serviceVars PROVE ServiceInv'
  OBVIOUS
<1>1. Inv /\ Inv'
  BY StepRunsGraceful, Inductive DEF ServiceInv
<1>2. step \in Nat /\ now \in Nat
  BY <1>1, GracefulAssumption DEF Inv, TypeOK
<1> USE DEF ServiceInv, Stopped, Drained, ClosedBehind, ErrorLeft, NilKnown,
            ContextDone
<1>3. CASE Goroutine \/ AcceptFails \/ Watcher \/ Signal \/ UNCHANGED serviceVars
  BY <1>3, Outside DEF Goroutine, Bind, BindFails, AcceptFails, ServerClosed, ServeReturns,
                       Watcher, Watch, InterruptMain, Signal, serviceVars, server
<1>4. ASSUME NEW q \in Requests, Accept(q) PROVE ServiceInv'
  <2>1. ~stopping /\ UNCHANGED <<vars, stopping, dbOpen>>
    BY <1>4 DEF Accept
  <2>2. ~(step' > StopServer) /\ UNCHANGED <<step, pc, errs, result>>
    BY <2>1 DEF vars
  <2> QED
    BY <1>1, <2>1, <2>2
<1>5. ASSUME NEW q \in Requests, Answer(q) PROVE ServiceInv'
  BY <1>5, Outside DEF Answer
<1>6. CASE TimePasses
  <2>1. /\ now' = now + 1
        /\ UNCHANGED <<pc, step, errs, result, cancelled, stopping, dbOpen, active>>
    BY <1>6 DEF TimePasses, Tick, server
  <2> QED
    BY <1>1, <1>2, <2>1, GracefulAssumption
<1>7. CASE MainInterrupted
  BY <1>1, <1>7 DEF MainInterrupted, Start, server
<1>8. CASE StepBegins
  <2>1. /\ pc = "calling" /\ pc' = "inStep" /\ step <= StepCount
        /\ UNCHANGED <<step, errs, result, now, cancelled, active>>
        /\ stopping \/ step = StopServer => stopping'
        /\ dbOpen /\ step # CloseDB => dbOpen'
    BY <1>8 DEF StepBegins, CallStep
  <2>2. step = 1 \/ step = 2
    BY <1>1, <2>1, ServiceAssumption DEF Inv, TypeOK
  <2>3. Stopped'
    BY <2>1, <2>2
  <2>4. ClosedBehind'
    BY <2>1, <2>2
  <2> QED
    BY <1>1, <2>1, <2>3, <2>4
<1>9. CASE ServerStopped
  <2>1. /\ step = StopServer /\ pc = "inStep" /\ pc' = "calling" /\ step' = step + 1
        /\ UNCHANGED <<result, now, cancelled, stopping, dbOpen, active>>
    BY <1>9 DEF ServerStopped, StepReturns, server
  <2>2. CASE active = {}
    BY <1>1, <2>1, <2>2
  <2>3. CASE active # {} /\ ContextDone /\ StepReturns(TRUE)
    <3>1. errs' = Append(errs, step) /\ errs \in Seq(1..StepCount)
      BY <1>1, <2>3 DEF StepReturns, Inv, TypeOK
    <3>2. errs' # <<>>
      BY <3>1
    <3> QED
      BY <1>1, <2>1, <2>3, <3>2
  <2> QED
    BY <1>9, <2>2, <2>3 DEF ServerStopped
<1>10. ASSUME NEW failed \in BOOLEAN, DatabaseClosed(failed) PROVE ServiceInv'
  <2>1. /\ step = CloseDB /\ pc = "inStep" /\ pc' = "calling" /\ step' = step + 1
        /\ UNCHANGED <<result, now, cancelled, stopping, dbOpen, active>>
    BY <1>10 DEF DatabaseClosed, StepReturns, server
  <2>2. errs' = <<>> => errs = <<>>
    <3>1. errs' = Append(errs, step) \/ errs' = errs
      BY <1>10 DEF DatabaseClosed, StepReturns
    <3>2. errs \in Seq(1..StepCount)
      BY <1>1 DEF Inv, TypeOK
    <3> QED
      BY <3>1, <3>2
  <2> QED
    BY <1>1, <2>1, <2>2
<1>11. CASE GracefulDone
  <2>1. /\ pc = "calling" /\ pc' = "returned"
        /\ result' = IF errs = <<>> THEN "nil" ELSE "error"
        /\ UNCHANGED <<step, errs, now, cancelled, stopping, dbOpen, active>>
    BY <1>11 DEF GracefulDone, Finish, server
  <2> QED
    BY <1>1, <2>1
<1>12. CASE Exit
  BY <1>12, Outside DEF Exit, server
<1> QED
  BY <1>3, <1>4, <1>5, <1>6, <1>7, <1>8, <1>9, <1>10, <1>11, <1>12
     DEF ServiceNext, Main, Clients

LEMMA ServiceAlways == ServiceSpec => []ServiceInv
  BY ServiceInitially, ServiceInductive, PTL DEF ServiceSpec

(* shutdown/doc.go: the database is closed under a request only when the     *)
(* shared deadline is over, for any number of requests.                     *)
THEOREM DrainedBeforeClosed == ServiceSpec => []DrainedOrLate
<1>1. ServiceInv => DrainedOrLate
  BY DEF ServiceInv, Drained, ClosedBehind, DrainedOrLate
<1> QED
  BY <1>1, ServiceAlways, PTL

(* main ends without an error only if every accepted request was answered.   *)
THEOREM CleanExitDrained == ServiceSpec => []CleanExit
<1>1. ServiceInv => CleanExit
  <2> SUFFICES ASSUME ServiceInv, result = "nil" PROVE active = {}
    BY DEF CleanExit
  <2>1. errs = <<>> /\ pc = "returned"
    BY DEF ServiceInv, NilKnown
  <2>2. step > StopServer
    BY <2>1, ServiceAssumption DEF ServiceInv, Inv, StepInRange
  <2> QED
    BY <2>1, <2>2 DEF ServiceInv, ErrorLeft
<1> QED
  BY <1>1, ServiceAlways, PTL
=============================================================================
