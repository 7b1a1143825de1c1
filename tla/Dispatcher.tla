----------------------------- MODULE Dispatcher -----------------------------
(***************************************************************************)
(* pkg/stream/dispatcher: goroutines that call Dispatch, which hands a      *)
(* message to the Kafka producer and waits for the delivery report on a     *)
(* channel of its own, and the goroutine that calls Shutdown, which flushes *)
(* the producer for a limited time and closes it.                           *)
(*                                                                          *)
(* External and reduced to how NewClient configures it: the producer keeps  *)
(* the accepted messages in order, has at most max.in.flight requests on    *)
(* their way, for the oldest of them, sends again what was not acknowledged,*)
(* gives a message up after message.timeout.ms, and drops without a report  *)
(* what it still holds when it is closed.  Neither takes back a request     *)
(* that is on its way: the broker may store it yet.  It handles nothing of  *)
(* a connection that is gone.  All messages go to one partition.  Produce   *)
(* on a closed producer is an error.                                        *)
(***************************************************************************)
EXTENDS Integers, Sequences, FiniteSets

CONSTANTS
  Calls,            \* calls of Dispatch, each by a goroutine of its own
  MessageTimeouts,  \* what WithDispatchTimeoutMs may be given, in ticks;
                    \* without 0, which librdkafka takes for no limit
  FlushTimeout,     \* flushTimeoutMs, in ticks
  LateDispatch,     \* TRUE: Dispatch may still be called during Shutdown
  MaxStores         \* bound: copies of a message the broker may store

ASSUME DispatcherAssumption ==
  /\ IsFiniteSet(Calls)
  /\ MessageTimeouts \subseteq Nat \ {0} /\ FlushTimeout \in Nat /\ MaxStores \in Nat
  /\ LateDispatch \in BOOLEAN

VARIABLES
  messageTimeoutMs,  \* message.timeout.ms of the producer
  call,       \* call[c]: where the call of Dispatch stands
  result,     \* result[c]: what it returned
  report,     \* report[c]: the delivery report in its deliveryChan
  held,       \* messages the producer holds and has not settled
  beside,     \* those of them it accepted while Shutdown ran
  request,    \* request[c]: that for the message, on its way or stored
  age,        \* age[c]: ticks since Produce accepted the message
  accepted,   \* how many messages Produce has accepted
  order,      \* order[c]: the number of the message among them
  topic,      \* the log of the partition
  shutdown,   \* where the call of Shutdown stands
  flushed     \* ticks spent in Flush

dispatching == <<call, result>>
producer    == <<messageTimeoutMs, held, beside, age, accepted, order, report>>
broker      == <<request, topic>>
stopping    == <<shutdown, flushed>>
vars        == <<dispatching, producer, broker, stopping>>

Init ==
  /\ messageTimeoutMs \in MessageTimeouts
  /\ call = [c \in Calls |-> "idle"]
  /\ result = [c \in Calls |-> "none"]
  /\ report = [c \in Calls |-> "none"]
  /\ held = {}
  /\ beside = {}
  /\ request = [c \in Calls |-> "none"]
  /\ age = [c \in Calls |-> 0]
  /\ accepted = 0
  /\ order = [c \in Calls |-> 0]
  /\ topic = <<>>
  /\ shutdown = "idle"
  /\ flushed = 0

Elements(seq) == {seq[i] : i \in DOMAIN seq}

-----------------------------------------------------------------------------
(* Dispatch *)

Return(c, value) ==
  /\ call' = [call EXCEPT ![c] = "returned"]
  /\ result' = [result EXCEPT ![c] = value]

(* The application stops dispatching before it calls Shutdown, or does not. *)
MayDispatch(c) == call[c] = "idle" /\ (LateDispatch \/ shutdown = "idle")

(* Serialize failed, or Produce did: the queue is full, the producer closed.*)
DispatchRefused(c) ==
  /\ MayDispatch(c)
  /\ Return(c, "error")
  /\ UNCHANGED <<producer, broker, stopping>>

Produce(c) ==
  /\ MayDispatch(c)
  /\ shutdown # "returned"
  /\ call' = [call EXCEPT ![c] = "waiting"]
  /\ held' = held \cup {c}
  /\ beside' = IF shutdown = "idle" THEN beside ELSE beside \cup {c}
  /\ accepted' = accepted + 1
  /\ order' = [order EXCEPT ![c] = accepted + 1]
  /\ UNCHANGED <<messageTimeoutMs, result, age, report, broker, stopping>>

(* Mutant of DeliveryError: a message given up counts as delivered. *)
TimeoutSwallowed(r) == IF r = "rejected" THEN "error" ELSE "nil"

(* Mutant of DeliveryError: the report itself is returned. *)
ReportPassedOn(r) == r

(* What each delivery report is turned into. *)
DeliveryError(r) ==
  CASE r = "stored"   -> "nil"
    [] r = "timedOut" -> "ErrProcessMessageTimedOut"
    [] r = "rejected" -> "error"

(* Mutant of ReceiveReport: a report without an acknowledgement is skipped. *)
WaitsForStored(c) ==
  /\ call[c] = "waiting"
  /\ report[c] = "stored"
  /\ Return(c, "nil")
  /\ UNCHANGED <<producer, broker, stopping>>

(* The receive on deliveryChan: there is no context and no second channel.  *)
ReceiveReport(c) ==
  /\ call[c] = "waiting"
  /\ report[c] # "none"
  /\ Return(c, DeliveryError(report[c]))
  /\ UNCHANGED <<producer, broker, stopping>>

-----------------------------------------------------------------------------
(* The producer and the broker *)

(* Mutant of defaultMaxInFlight: the default of librdkafka, cut down. *)
TwoInFlight == 2

defaultMaxInFlight == 1

InFlight == {c \in Calls : request[c] # "none"}

(* The oldest message without a request goes out, for the first time or     *)
(* once more.                                                               *)
Send(c) ==
  /\ c \in held \ InFlight
  /\ \A d \in held : order[d] < order[c] => d \in InFlight
  /\ Cardinality(InFlight) < defaultMaxInFlight
  /\ request' = [request EXCEPT ![c] = "sent"]
  /\ UNCHANGED <<dispatching, producer, topic, stopping>>

Stores(c) == Cardinality({i \in DOMAIN topic : topic[i] = c})

(* The broker appends it, perhaps when its sender has given up or is gone.  *)
Store(c) ==
  /\ request[c] = "sent"
  /\ Stores(c) < MaxStores
  /\ topic' = Append(topic, c)
  /\ request' = [request EXCEPT ![c] = "stored"]
  /\ UNCHANGED <<dispatching, producer, stopping>>

(* The connection breaks, and the request or its answer with it. *)
Lose(c) ==
  /\ c \in InFlight
  /\ request' = [request EXCEPT ![c] = "none"]
  /\ UNCHANGED <<dispatching, producer, topic, stopping>>

(* The producer reports a message it holds, and once only. *)
Settle(c, r) ==
  /\ held' = held \ {c}
  /\ report' = IF c \in held THEN [report EXCEPT ![c] = r] ELSE report
  /\ UNCHANGED <<dispatching, messageTimeoutMs, beside, age, accepted, order,
                 topic, stopping>>

(* acks=all: the answer only comes for a message the broker has stored.     *)
Acknowledge(c) ==
  /\ request[c] = "stored"
  /\ request' = [request EXCEPT ![c] = "none"]
  /\ Settle(c, "stored")

Reject(c) ==
  /\ request[c] = "sent"
  /\ request' = [request EXCEPT ![c] = "none"]
  /\ Settle(c, "rejected")

(* The message is given up; a request for it stays on its way. *)
Expire(c) ==
  /\ c \in held
  /\ age[c] >= messageTimeoutMs
  /\ Settle(c, "timedOut")
  /\ UNCHANGED request

-----------------------------------------------------------------------------
(* Shutdown *)

Flush ==
  /\ shutdown = "idle"
  /\ shutdown' = "flushing"
  /\ UNCHANGED <<dispatching, producer, broker, flushed>>

(* Mutant of FlushReturns: the flush is asked for no time at all. *)
FlushAtOnce ==
  /\ shutdown = "flushing"
  /\ shutdown' = "closing"
  /\ UNCHANGED <<dispatching, producer, broker, flushed>>

(* Flush returns the number of messages left; nobody looks at it. *)
FlushReturns ==
  /\ shutdown = "flushing"
  /\ held = {} \/ flushed >= FlushTimeout
  /\ shutdown' = "closing"
  /\ UNCHANGED <<dispatching, producer, broker, flushed>>

Close ==
  /\ shutdown = "closing"
  /\ shutdown' = "returned"
  /\ held' = {}
  /\ UNCHANGED <<dispatching, messageTimeoutMs, beside, age, accepted, order,
                 report, broker, flushed>>

(* One unit of time: no message outlives its deadline, Flush keeps its own. *)
Tick ==
  /\ held # {}
  /\ \A c \in held : age[c] < messageTimeoutMs
  /\ shutdown = "flushing" => flushed < FlushTimeout
  /\ age' = [c \in Calls |-> IF c \in held THEN age[c] + 1 ELSE age[c]]
  /\ flushed' = IF shutdown = "flushing" THEN flushed + 1 ELSE flushed
  /\ UNCHANGED <<dispatching, messageTimeoutMs, held, beside, accepted, order,
                 report, broker, shutdown>>

-----------------------------------------------------------------------------
Next ==
  \/ \E c \in Calls :
       \/ DispatchRefused(c) \/ Produce(c) \/ ReceiveReport(c)
       \/ Send(c) \/ Store(c) \/ Lose(c)
       \/ Acknowledge(c) \/ Reject(c) \/ Expire(c)
  \/ Flush
  \/ FlushReturns
  \/ Close
  \/ Tick

Spec == Init /\ [][Next]_vars

(* Time passes, the producer gives up what has expired, a report wakes its  *)
(* goroutine, Flush and Close return.  The broker need not answer.          *)
Fairness ==
  /\ WF_vars(Tick)
  /\ WF_vars(FlushReturns) /\ WF_vars(Close)
  /\ \A c \in Calls : WF_vars(Expire(c)) /\ WF_vars(ReceiveReport(c))

FairSpec == Spec /\ Fairness

-----------------------------------------------------------------------------
Reports == {"none", "stored", "timedOut", "rejected"}
Results == {"none", "nil", "error", "ErrProcessMessageTimedOut"}

TypeOK ==
  /\ call \in [Calls -> {"idle", "waiting", "returned"}]
  /\ result \in [Calls -> Results]
  /\ report \in [Calls -> Reports]
  /\ messageTimeoutMs \in MessageTimeouts
  /\ held \subseteq Calls /\ beside \subseteq Calls
  /\ request \in [Calls -> {"none", "sent", "stored"}]
  /\ age \in [Calls -> 0..messageTimeoutMs]
  /\ accepted \in Nat
  /\ order \in [Calls -> 0..accepted]
  /\ topic \in Seq(Calls)
  /\ shutdown \in {"idle", "flushing", "closing", "returned"}
  /\ flushed \in 0..FlushTimeout

(* Close has dropped the message under its caller. *)
Dropped(c) == shutdown = "returned" /\ call[c] = "waiting" /\ report[c] = "none"

(* "Shutdown flushes whatever the producer still holds and closes it"       *)
(* (doc.go:32-33): when Shutdown is over, every call of Dispatch that is    *)
(* still waiting has its report, stored or not.                             *)
NothingLeftBehind == \A c \in Calls : ~Dropped(c)

(* What Shutdown does keep of that, whatever the settings: it only drops    *)
(* what Produce accepted beside it, or what has longer to be delivered than *)
(* the flush lasts, and then after a flush of its full length (dispatcher.go*)
(* :38-41).                                                                 *)
DroppedOnlyLate ==
  \A c \in Calls : Dropped(c) =>
    \/ c \in beside
    \/ messageTimeoutMs >= FlushTimeout /\ flushed = FlushTimeout

(* Every call of Dispatch comes back (dispatcher.go:77), also when the      *)
(* broker never answers, unless Close drops its message: then it waits for  *)
(* ever.                                                                    *)
DispatchReturns ==
  \A c \in Calls : call[c] = "waiting" ~> call[c] = "returned" \/ Dropped(c)

(* Whatever is sent again, the log never goes back behind a message that    *)
(* Produce accepted later (dispatcher_client.go:62-64).                     *)
NeverReordered ==
  \A i, j \in DOMAIN topic : i < j => order[topic[i]] <= order[topic[j]]

(* Dispatch keeps the contract the consumer relies on. *)
Contract == INSTANCE Publisher WITH
  stored  <- Elements(topic),
  outcome <- [c \in Calls |-> IF result[c] = "ErrProcessMessageTimedOut"
                                THEN "error" ELSE result[c]]

KeepsContract == Contract!Spec
=============================================================================
