------------------------------ MODULE Service ------------------------------
(***************************************************************************)
(* A service put together from pkg/httpserver and pkg/shutdown the way      *)
(* examples/httpserver/main.go and pkg/shutdown/doc.go do: the server runs  *)
(* in a goroutine, a watcher turns its failure into an interrupt, and main  *)
(* waits for an interrupt and then runs Graceful with two steps, stopping   *)
(* the server and closing the database.  Graceful is the module Graceful,   *)
(* extended; here are the server, the watcher, main and the two steps, and  *)
(* every action that moves Graceful is a conjunction with an action of it.  *)
(*                                                                         *)
(* The server embeds http.Server, which is not part of the repository; what *)
(* its ListenAndServe and Shutdown do is taken from their documentation.    *)
(***************************************************************************)
EXTENDS Graceful

CONSTANT
  Requests  \* requests that clients may send

(* The two steps.  The second takes the context and does not look at it.    *)
StopServer == 1
CloseDB == 2

ASSUME ServiceAssumption ==
  /\ StepCount = 2
  /\ Honours = {StopServer}

VARIABLES
  serve,       \* the goroutine of Run, around ListenAndServe
  stopping,    \* whether Shutdown was called on the server
  listener,    \* buffer of shutdownListener, of capacity 1
  tracing,     \* whether the tracer is running
  active,      \* accepted requests without an answer
  answered,    \* answered requests
  watcher,     \* the goroutine that receives from shutdownListener
  interrupt,   \* number of signals in the channel of main, of capacity 1
  dbOpen,      \* whether the database is open
  exited       \* whether main has returned

server == <<serve, stopping, listener, tracing, active, answered>>
serviceVars == <<vars, server, watcher, interrupt, dbOpen, exited>>

ServiceInit ==
  /\ Init
  /\ serve = "starting"
  /\ stopping = FALSE
  /\ listener = <<>>
  /\ tracing = TRUE
  /\ active = {}
  /\ answered = {}
  /\ watcher = "waiting"
  /\ interrupt = 0
  /\ dbOpen = TRUE
  /\ exited = FALSE

-----------------------------------------------------------------------------
(* The goroutine of Run                                                     *)

Bind ==
  /\ serve = "starting"
  /\ ~stopping
  /\ serve' = "serving"
  /\ UNCHANGED <<vars, stopping, listener, tracing, active, answered,
                 watcher, interrupt, dbOpen, exited>>

(* mutant: the error of ListenAndServe is not sent *)
ReturnsUnheard(err) ==
  /\ serve' = "returned"
  /\ tracing' = FALSE
  /\ UNCHANGED <<vars, stopping, listener, active, answered, watcher,
                 interrupt, dbOpen, exited>>

(* ListenAndServe returns, its error is sent, and the tracer is stopped by  *)
(* the deferred call, whatever requests are still being served.             *)
ServeReturns(err) ==
  /\ serve' = "returned"
  /\ Len(listener) < 1
  /\ listener' = Append(listener, err)
  /\ tracing' = FALSE
  /\ UNCHANGED <<vars, stopping, active, answered, watcher, interrupt,
                 dbOpen, exited>>

(* The port is taken.                                                       *)
BindFails == serve = "starting" /\ ~stopping /\ ServeReturns("error")

(* The listener fails while it serves, for instance out of descriptors.     *)
AcceptFails == serve = "serving" /\ ~stopping /\ ServeReturns("error")

(* Shutdown makes ListenAndServe return, and keeps it from starting.        *)
ServerClosed ==
  /\ serve \in {"starting", "serving"}
  /\ stopping
  /\ ServeReturns("ErrServerClosed")

Accept(q) ==
  /\ serve = "serving" /\ ~stopping /\ ~exited
  /\ q \notin active \union answered
  /\ active' = active \union {q}
  /\ UNCHANGED <<vars, serve, stopping, listener, tracing, answered,
                 watcher, interrupt, dbOpen, exited>>

(* Requests are answered by goroutines of their own; they may take any time.*)
Answer(q) ==
  /\ q \in active /\ ~exited
  /\ active' = active \ {q}
  /\ answered' = answered \union {q}
  /\ UNCHANGED <<vars, serve, stopping, listener, tracing, watcher,
                 interrupt, dbOpen, exited>>

-----------------------------------------------------------------------------
(* The watcher and main                                                     *)

(* mutant: the test for ErrServerClosed the wrong way round *)
WatchesForClosed ==
  /\ watcher = "waiting"
  /\ listener # <<>>
  /\ listener' = Tail(listener)
  /\ watcher' = IF Head(listener) = "ErrServerClosed" THEN "sending" ELSE "done"
  /\ UNCHANGED <<vars, serve, stopping, tracing, active, answered,
                 interrupt, dbOpen, exited>>

Watch ==
  /\ watcher = "waiting"
  /\ listener # <<>>
  /\ listener' = Tail(listener)
  /\ watcher' = IF Head(listener) = "ErrServerClosed" THEN "done" ELSE "sending"
  /\ UNCHANGED <<vars, serve, stopping, tracing, active, answered,
                 interrupt, dbOpen, exited>>

(* The send blocks while the channel is full.                               *)
InterruptMain ==
  /\ watcher = "sending"
  /\ interrupt < 1
  /\ interrupt' = interrupt + 1
  /\ watcher' = "done"
  /\ UNCHANGED <<vars, server, dbOpen, exited>>

(* mutant: the channel of the signals has no bound *)
SignalQueues ==
  /\ interrupt < 2 /\ ~exited
  /\ interrupt' = interrupt + 1
  /\ UNCHANGED <<vars, server, watcher, dbOpen, exited>>

(* SIGINT or SIGTERM; signal.Notify drops what does not fit in the channel. *)
Signal ==
  /\ interrupt < 1 /\ ~exited
  /\ interrupt' = interrupt + 1
  /\ UNCHANGED <<vars, server, watcher, dbOpen, exited>>

MainInterrupted ==
  /\ Start
  /\ interrupt > 0
  /\ interrupt' = interrupt - 1
  /\ UNCHANGED <<server, watcher, dbOpen, exited>>

(* mutant: the steps in the other order *)
DatabaseFirst ==
  /\ CallStep
  /\ stopping' = (stopping \/ step = CloseDB)
  /\ dbOpen' = (dbOpen /\ step # StopServer)
  /\ UNCHANGED <<serve, listener, tracing, active, answered, watcher,
                 interrupt, exited>>

(* A step begins: the server stops accepting, or the database is closed     *)
(* under whoever uses it.                                                   *)
StepBegins ==
  /\ CallStep
  /\ stopping' = (stopping \/ step = StopServer)
  /\ dbOpen' = (dbOpen /\ step # CloseDB)
  /\ UNCHANGED <<serve, listener, tracing, active, answered, watcher,
                 interrupt, exited>>

(* mutant: the server is closed and not drained *)
ClosesAtOnce ==
  /\ step = StopServer
  /\ StepReturns(FALSE)
  /\ UNCHANGED <<server, watcher, interrupt, dbOpen, exited>>

(* Shutdown returns once the requests have their answer, or with an error   *)
(* once the context is done.                                                *)
ServerStopped ==
  /\ step = StopServer
  /\ \/ active = {} /\ StepReturns(FALSE)
     \/ active # {} /\ ContextDone /\ StepReturns(TRUE)
  /\ UNCHANGED <<server, watcher, interrupt, dbOpen, exited>>

(* Close returns when it likes, on time or not.                             *)
DatabaseClosed(failed) ==
  /\ step = CloseDB
  /\ StepReturns(failed)
  /\ UNCHANGED <<server, watcher, interrupt, dbOpen, exited>>

(* Time passes while main waits for a step.                                 *)
TimePasses ==
  /\ Tick
  /\ UNCHANGED <<server, watcher, interrupt, dbOpen, exited>>

GracefulDone ==
  /\ Finish
  /\ UNCHANGED <<server, watcher, interrupt, dbOpen, exited>>

(* main returns, or calls log.Fatal, and the process ends.                  *)
Exit ==
  /\ pc = "returned" /\ ~exited
  /\ exited' = TRUE
  /\ UNCHANGED <<vars, server, watcher, interrupt, dbOpen>>

-----------------------------------------------------------------------------
Goroutine == Bind \/ BindFails \/ ServerClosed
Watcher == Watch \/ InterruptMain
Main ==
  \/ MainInterrupted
  \/ StepBegins
  \/ ServerStopped
  \/ \E failed \in BOOLEAN : DatabaseClosed(failed)
  \/ GracefulDone
  \/ Exit
Clients == \E q \in Requests : Accept(q) \/ Answer(q)

ServiceNext ==
  \/ ~exited /\ (Goroutine \/ AcceptFails \/ Watcher)
  \/ Main \/ Clients \/ Signal \/ TimePasses

ServiceSpec == ServiceInit /\ [][ServiceNext]_serviceVars

(* The goroutines of the process are scheduled and time passes.  The context*)
(* ends the first step; that the second ends is an assumption about Close,  *)
(* part of the fairness of Main.  Nothing makes a client send, a handler    *)
(* answer, the listener fail or anyone interrupt.                           *)
ServiceFairness ==
  /\ WF_serviceVars(~exited /\ Goroutine)
  /\ WF_serviceVars(~exited /\ Watcher)
  /\ WF_serviceVars(Main)
  /\ WF_serviceVars(TimePasses)

ServiceFairSpec == ServiceSpec /\ ServiceFairness

-----------------------------------------------------------------------------
ServerTypeOK ==
  /\ serve \in {"starting", "serving", "returned"}
  /\ stopping \in BOOLEAN
  /\ listener \in Seq({"error", "ErrServerClosed"}) /\ Len(listener) <= 1
  /\ tracing \in BOOLEAN
  /\ active \subseteq Requests /\ answered \subseteq Requests
  /\ watcher \in {"waiting", "sending", "done"}
  /\ interrupt \in 0..1
  /\ dbOpen \in BOOLEAN
  /\ exited \in BOOLEAN

ServiceTypeOK == TypeOK /\ ServerTypeOK

(* The order of the steps protects the requests: the database is closed     *)
(* under a request only when the shared deadline is over.                   *)
DrainedOrLate == ~dbOpen /\ active # {} => ContextDone

(* main ends without an error only if every accepted request was answered.  *)
CleanExit == exited /\ result = "nil" => active = {}

(* "The deadline bounds the whole sequence, so a server that never finishes *)
(* draining its connections cannot hang the process" (shutdown/doc.go:14-15):*)
(* an interrupt ends the process though no handler ever answers, provided   *)
(* that the close of the database does, which has no context (connection.go *)
(* :154-156).                                                               *)
ShutdownEnds == interrupt > 0 ~> exited

(* A server that cannot bind its port, or stops serving, ends the process:  *)
(* the error crosses shutdownListener, the watcher and the interrupt.       *)
ServeFailureEnds == serve = "returned" /\ ~stopping ~> exited
=============================================================================
