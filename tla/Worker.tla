------------------------------- MODULE Worker -------------------------------
(***************************************************************************)
(* The process of examples/stream/consumer/main.go: main runs one consumer  *)
(* over one dispatcher, waits for an interrupt, shuts the consumer down and *)
(* then, deferred, the dispatcher.  A watcher turns the failure of the      *)
(* consumer into an interrupt.  The consumer is the module Consumer,        *)
(* extended; every action that moves it is a conjunction with one of its.   *)
(*                                                                          *)
(* Of the dispatcher only its life is kept.  That nobody dispatches beside  *)
(* its Shutdown, which Dispatcher assumes of the process around it, is what *)
(* DispatcherOutlivesLoop states here.                                      *)
(***************************************************************************)
EXTENDS Consumer

(* main calls Run once, and is the only one to call Shutdown. *)
ASSUME WorkerAssumption ==
  /\ Runs = {"run"}
  /\ Callers = {"main"}

VARIABLES
  main,        \* where main stands
  watcher,     \* where the goroutine that reads ListenShutdown stands
  interrupt,   \* signals in the channel of main, of capacity 1
  dispatcher   \* "open", "flushing" or "closed"

process    == <<main, watcher, interrupt, dispatcher>>
workerVars == <<vars, process>>

(* The dispatcher, the consumer and the signal channel exist. *)
WorkerInit ==
  /\ Init
  /\ main = "created"
  /\ watcher = "none"
  /\ interrupt = 0
  /\ dispatcher = "open"

-----------------------------------------------------------------------------
(* main *)

(* An error of Run returns from main, past the watcher. *)
MainRuns ==
  /\ main = "created"
  /\ Run("run")
  /\ \/ /\ loop'["run"] = "select"
        /\ main' = "waiting" /\ watcher' = "listening"
     \/ /\ loop'["run"] = "unsubscribed"
        /\ main' = "deferred" /\ UNCHANGED watcher
  /\ UNCHANGED <<interrupt, dispatcher>>

MainInterrupted ==
  /\ main = "waiting"
  /\ interrupt > 0
  /\ interrupt' = interrupt - 1
  /\ CallShutdown("main")
  /\ main' = "stopping"
  /\ UNCHANGED <<watcher, dispatcher>>

(* Mutant of StopConsumer: go shutdown(), and main goes on. *)
StopUnawaited ==
  /\ main = "stopping"
  /\ Shutdown("main")
  /\ main' = "deferred"
  /\ UNCHANGED <<watcher, interrupt, dispatcher>>

(* main is inside shutdown() until the client is closed. *)
StopConsumer ==
  /\ main = "stopping"
  /\ Shutdown("main")
  /\ main' = IF caller'["main"] = "returned" THEN "deferred" ELSE main
  /\ UNCHANGED <<watcher, interrupt, dispatcher>>

(* Mutant of FlushDispatcher: the dispatcher is not deferred but shut down  *)
(* as soon as main is interrupted.                                          *)
FlushEarly ==
  /\ main \in {"stopping", "deferred"}
  /\ dispatcher = "open"
  /\ dispatcher' = "flushing"
  /\ UNCHANGED <<vars, main, watcher, interrupt>>

(* The deferred d.Shutdown; the process ends behind it. *)
FlushDispatcher ==
  /\ main = "deferred"
  /\ dispatcher = "open"
  /\ dispatcher' = "flushing"
  /\ UNCHANGED <<vars, main, watcher, interrupt>>

CloseDispatcher ==
  /\ main = "deferred"
  /\ dispatcher = "flushing"
  /\ dispatcher' = "closed"
  /\ main' = "exited"
  /\ UNCHANGED <<vars, watcher, interrupt>>

-----------------------------------------------------------------------------
(* The watcher and the signals *)

WatcherHears ==
  /\ watcher = "listening"
  /\ ListenShutdown
  /\ watcher' = "sending"
  /\ UNCHANGED <<main, interrupt, dispatcher>>

(* Mutant of WatcherInterrupts: the error is logged and nothing is sent. *)
WatcherLogs ==
  /\ watcher = "sending"
  /\ watcher' = "done"
  /\ UNCHANGED <<vars, main, interrupt, dispatcher>>

(* The send waits while a signal is in the channel. *)
WatcherInterrupts ==
  /\ watcher = "sending"
  /\ interrupt < 1
  /\ interrupt' = interrupt + 1
  /\ watcher' = "done"
  /\ UNCHANGED <<vars, main, dispatcher>>

(* SIGINT or SIGTERM; signal.Notify drops what the channel cannot take. *)
Signal ==
  /\ interrupt < 1
  /\ interrupt' = interrupt + 1
  /\ UNCHANGED <<vars, main, watcher, dispatcher>>

-----------------------------------------------------------------------------
(* The consumer's goroutines.  A dispatcher that is closed takes nothing.   *)
Goroutine(r) ==
  /\ Poll(r) \/ Process(r)
  /\ dispatcher = "closed" => ~DispatchSucceeds(r)
  /\ UNCHANGED process

Reports(r) == Reporter(r) /\ UNCHANGED process

Rebalance == Group /\ UNCHANGED process

Main ==
  \/ MainRuns
  \/ MainInterrupted
  \/ StopConsumer
  \/ FlushDispatcher
  \/ CloseDispatcher

Watcher == WatcherHears \/ WatcherInterrupts

(* The process dies, or has exited, and is started again. *)
RestartProcess ==
  /\ Restart
  /\ main' = "created"
  /\ watcher' = "none"
  /\ interrupt' = 0
  /\ dispatcher' = "open"

(* The goroutines end with main. *)
Running == main # "exited"

WorkerNext ==
  \/ Running /\ (Main \/ Watcher \/ Signal)
  \/ Running /\ \E r \in Runs : Goroutine(r) \/ Reports(r)
  \/ Rebalance
  \/ RestartProcess

WorkerSpec == WorkerInit /\ [][WorkerNext]_workerVars

(* Every goroutine that can go on is scheduled while the process runs, and  *)
(* Flush ends.  Nothing makes a signal arrive.                              *)
WorkerFairness ==
  /\ \A r \in Runs :
       /\ WF_workerVars(Running /\ Goroutine(r))
       /\ WF_workerVars(Running /\ Reports(r))
  /\ WF_workerVars(Running /\ Main)
  /\ WF_workerVars(Running /\ Watcher)

WorkerFairSpec == WorkerSpec /\ WorkerFairness

-----------------------------------------------------------------------------
WorkerTypeOK ==
  /\ TypeOK
  /\ main \in {"created", "waiting", "stopping", "deferred", "exited"}
  /\ watcher \in {"none", "listening", "sending", "done"}
  /\ interrupt \in 0..1
  /\ dispatcher \in {"open", "flushing", "closed"}

(* The dispatcher is flushed and closed only behind the last call of        *)
(* Dispatch and behind the client: a dead letter in the making is never cut *)
(* off by the end of the process (main.go:86, 118).                         *)
DispatcherOutlivesLoop ==
  dispatcher # "open" =>
    \/ loop["run"] = "unsubscribed"
    \/ loop["run"] = "stopped" /\ client = "closed"

(* A signal ends the process, and so does a failure of the consumer: its    *)
(* error crosses the reporter, ListenShutdown, the watcher and the signal   *)
(* channel, whatever else fills the channel (main.go:101-118).              *)
WorkerEnds ==
  \A n \in 0..MaxCrashes :
    crashes = n /\ (interrupt > 0 \/ \E r \in Runs : reporter[r] = "reporting")
      ~> main = "exited" \/ crashes > n

(* The process is a run of Consumer with its fairness: it never exits under *)
(* a goroutine of the consumer that still has something to do.              *)
RunsConsumer == FairSpec
=============================================================================
