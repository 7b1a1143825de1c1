---------------------------- MODULE WorkerProofs ----------------------------
(***************************************************************************)
(* The process around the consumer.  Every step of it is a step of Consumer *)
(* or leaves the consumer alone, so what ConsumerProofs shows of a single   *)
(* loop holds of the process; on top of it comes the order of the two       *)
(* shutdowns.                                                               *)
(***************************************************************************)
EXTENDS Worker, ConsumerProofs

LEMMA OneLoop == SingleRun
  BY WorkerAssumption DEF SingleRun

LEMMA StepsOfConsumer == ASSUME [WorkerNext]_workerVars PROVE [Next]_vars
<1>1. CASE Main
  BY <1>1, WorkerAssumption
     DEF Main, MainRuns, MainInterrupted, StopConsumer, FlushDispatcher,
         CloseDispatcher, Next
<1>2. CASE Watcher \/ Signal
  BY <1>2 DEF Watcher, WatcherHears, WatcherInterrupts, Signal, Next
<1>3. ASSUME NEW r \in Runs, Goroutine(r) \/ Reports(r) PROVE [Next]_vars
  BY <1>3 DEF Goroutine, Reports, Next
<1>4. CASE Rebalance \/ RestartProcess
  BY <1>4 DEF Rebalance, RestartProcess, Next
<1>5. CASE UNCHANGED workerVars
  BY <1>5 DEF workerVars
<1> QED
  BY <1>1, <1>2, <1>3, <1>4, <1>5 DEF WorkerNext

(* What the process does to its consumer is a behaviour of Consumer: main   *)
(* calls Run and Shutdown where the consumer allows it (RunsConsumer        *)
(* without its fairness).                                                   *)
THEOREM WorkerRunsConsumer == WorkerSpec => Spec
<1>1. WorkerInit => Init
  BY DEF WorkerInit
<1> QED
  BY <1>1, StepsOfConsumer, PTL DEF WorkerSpec, Spec

(* The dead letters of the process can be decoded again.                    *)
THEOREM WorkerDeadLettersReadable == WorkerSpec => []DeadLettersDecode
  BY WorkerRunsConsumer, DeadLettersReadable

(* The process never loses a message.                                       *)
THEOREM WorkerLosesNothing == WorkerSpec => []NoMessageLost
  BY WorkerRunsConsumer, OneLoop, NothingLost

(* main, which waits in Shutdown before it flushes its dispatcher, never    *)
(* waits for a token that is lost.                                          *)
THEOREM WorkerNeverLocks == WorkerSpec => []ShutdownProceeds
  BY WorkerRunsConsumer, OneLoop, ShutdownNeverLocks

-----------------------------------------------------------------------------
(***************************************************************************)
(* The order of the shutdowns.  main only reaches its deferred calls when   *)
(* Run failed or when its Shutdown returned, and Shutdown returns behind    *)
(* the loop (Handshake) with the client closed.                             *)
(***************************************************************************)
MainTypeOK ==
  /\ main \in {"created", "waiting", "stopping", "deferred", "exited"}
  /\ watcher \in {"none", "listening", "sending", "done"}
  /\ interrupt \in 0..1
  /\ dispatcher \in {"open", "flushing", "closed"}

Released ==
  /\ caller["main"] = "returned" => client = "closed"
  /\ main \in {"deferred", "exited"} =>
       loop["run"] = "unsubscribed" \/ caller["main"] = "returned"
  /\ dispatcher # "open" => main \in {"deferred", "exited"}

OrderInv == TypeInv /\ Handshake /\ MainTypeOK /\ Released

LEMMA OrderInit == WorkerInit => OrderInv
<1>1. WorkerInit => TypeInv
  BY TypeInit DEF WorkerInit
<1> QED
  BY <1>1, WorkerAssumption
     DEF WorkerInit, Init, OrderInv, Handshake, MainTypeOK, Released

LEMMA MainOrder ==
  ASSUME OrderInv, Main PROVE (MainTypeOK /\ Released)'
<1> USE WorkerAssumption DEF OrderInv, TypeInv, TypeOK, MainTypeOK, Released
<1>1. CASE MainRuns
  BY <1>1 DEF MainRuns, Run, At, Goto, others
<1>2. CASE MainInterrupted
  BY <1>2 DEF MainInterrupted, CallShutdown, CallerGoto
<1>3. CASE StopConsumer
  BY <1>3 DEF StopConsumer, Shutdown, StartShutdown, SeeFinished, Close,
              CallerGoto
<1>4. CASE FlushDispatcher
  BY <1>4 DEF FlushDispatcher, vars, others
<1>5. CASE CloseDispatcher
  BY <1>5 DEF CloseDispatcher, vars, others
<1> QED
  BY <1>1, <1>2, <1>3, <1>4, <1>5 DEF Main

(* The consumer's goroutines never leave "unsubscribed", and only callers   *)
(* and main touch the client.                                               *)
LEMMA GoroutineOrder ==
  ASSUME OrderInv, NEW r \in Runs, Goroutine(r) \/ Reports(r)
  PROVE  (MainTypeOK /\ Released)'
<1> USE WorkerAssumption
    DEF OrderInv, TypeInv, TypeOK, MainTypeOK, Released, At, Goto, process
<1>1. CASE Reports(r)
  BY <1>1 DEF Reports, Reporter, ReportError, ReporterSeesShutdown,
              ReporterFinishes
<1>2. CASE Goroutine(r) /\ Poll(r)
  BY <1>2 DEF Goroutine, Poll, Select, LoopFinishes, ReadMessage, ReadTimesOut,
              ReadFails, LoopFails, others
<1>3. CASE Goroutine(r) /\ Process(r)
  BY <1>3 DEF Goroutine, Process, ProcessMessage, HandleSucceeds, HandleFails,
              RetryFails, DispatchSucceeds, DispatchFails, CommitMessage,
              CommitFails, LoopFails, others
<1> QED
  BY <1>1, <1>2, <1>3 DEF Goroutine

LEMMA OrderNext ==
  ASSUME OrderInv, [WorkerNext]_workerVars PROVE OrderInv'
<1>1. (TypeInv /\ Handshake)'
  BY StepsOfConsumer, OneLoop, TypeNext, HandshakeNext DEF OrderInv
<1> USE DEF MainTypeOK, Released
<1>2. ASSUME Watcher \/ Signal PROVE (MainTypeOK /\ Released)'
  BY <1>2 DEF OrderInv, Watcher, WatcherHears, WatcherInterrupts, Signal,
              ListenShutdown, vars, others
<1>3. ASSUME Rebalance PROVE (MainTypeOK /\ Released)'
  BY <1>3 DEF OrderInv, Rebalance, Group, Assign, Revoke, PeerResolves,
              PeerCommits, others, process
<1>4. ASSUME RestartProcess PROVE (MainTypeOK /\ Released)'
  BY <1>4, WorkerAssumption DEF RestartProcess, Restart
<1>5. ASSUME UNCHANGED workerVars PROVE (MainTypeOK /\ Released)'
  BY <1>5 DEF OrderInv, workerVars, vars, others, process
<1> HIDE DEF MainTypeOK, Released
<1>6. (MainTypeOK /\ Released)'
  BY <1>2, <1>3, <1>4, <1>5, MainOrder, GoroutineOrder DEF WorkerNext
<1> QED
  BY <1>1, <1>6 DEF OrderInv

(* Every variable of the process keeps its type; the signal channel of main *)
(* never holds more than one (main.go:101).                                 *)
THEOREM WorkerTypeCorrect == WorkerSpec => []WorkerTypeOK
<1>1. OrderInv => WorkerTypeOK
  BY DEF OrderInv, TypeInv, MainTypeOK, WorkerTypeOK
<1> QED
  BY <1>1, OrderInit, OrderNext, PTL DEF WorkerSpec

(* The dispatcher is only flushed and closed behind the last Dispatch of    *)
(* the loop, for any log and retries and through any crash and rebalancing. *)
THEOREM DispatcherClosedLast == WorkerSpec => []DispatcherOutlivesLoop
<1>1. OrderInv => DispatcherOutlivesLoop
  BY WorkerAssumption
     DEF OrderInv, Released, Handshake, Over, DispatcherOutlivesLoop
<1> QED
  BY <1>1, OrderInit, OrderNext, PTL DEF WorkerSpec
=============================================================================
