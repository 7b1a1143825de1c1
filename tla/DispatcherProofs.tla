-------------------------- MODULE DispatcherProofs --------------------------
(***************************************************************************)
(* Dispatcher, proved for any finite set of calls and any timeouts.         *)
(***************************************************************************)
EXTENDS Dispatcher, FiniteSetTheorems, TLAPS

LEMMA TypeInit == Init => TypeOK
  BY DispatcherAssumption DEF Init, TypeOK, Results, Reports

LEMMA TypeNext == ASSUME TypeOK, [Next]_vars PROVE TypeOK'
<1> USE DispatcherAssumption
    DEF TypeOK, Results, Reports, dispatching, producer, broker, stopping
<1>1. ASSUME NEW c \in Calls, DispatchRefused(c) PROVE TypeOK'
  BY <1>1 DEF DispatchRefused, MayDispatch, Return
<1>2. ASSUME NEW c \in Calls, Produce(c) PROVE TypeOK'
  BY <1>2 DEF Produce, MayDispatch
<1>3. ASSUME NEW c \in Calls, ReceiveReport(c) PROVE TypeOK'
  BY <1>3 DEF ReceiveReport, Return, DeliveryError
<1>4. ASSUME NEW c \in Calls, Store(c) PROVE TypeOK'
  <2>1. topic' \in Seq(Calls)
    BY <1>4 DEF Store
  <2> QED
    BY <1>4, <2>1 DEF Store
<1>5. ASSUME NEW c \in Calls, Acknowledge(c) \/ Reject(c) \/ Expire(c)
      PROVE  TypeOK'
  <2>1. PICK r \in {"stored", "timedOut", "rejected"} :
          /\ Settle(c, r)
          /\ request' \in {request, [request EXCEPT ![c] = "none"]}
    BY <1>5 DEF Acknowledge, Reject, Expire
  <2>2. report' \in [Calls -> Reports]
    BY <2>1 DEF Settle
  <2>3. request' \in [Calls -> {"none", "sent", "stored"}]
    BY <2>1
  <2> QED
    BY <2>1, <2>2, <2>3 DEF Settle
<1>10. ASSUME NEW c \in Calls, Send(c) \/ Lose(c) PROVE TypeOK'
  BY <1>10 DEF Send, Lose
<1>6. CASE Flush
  BY <1>6 DEF Flush
<1>7. CASE FlushReturns \/ Close
  BY <1>7 DEF FlushReturns, Close
<1>8. CASE Tick
  BY <1>8 DEF Tick
<1>9. CASE UNCHANGED vars
  BY <1>9 DEF vars
<1> QED
  BY <1>1, <1>2, <1>3, <1>4, <1>5, <1>6, <1>7, <1>8, <1>9, <1>10 DEF Next

(* Every variable keeps its type; no message outlives its deadline.         *)
THEOREM TypeCorrect == Spec => []TypeOK
  BY TypeInit, TypeNext, PTL DEF Spec

-----------------------------------------------------------------------------
(* What a delivery report stands for: a message the producer still holds    *)
(* has none and its caller waits; "stored" is only answered, and reported,  *)
(* of a message that is on the topic; a caller that waits has not returned  *)
(* anything.                                                                *)
Reported ==
  /\ \A c \in held : call[c] = "waiting" /\ report[c] = "none"
  /\ \A c \in Calls : call[c] = "idle" => report[c] = "none"
  /\ \A c \in Calls : call[c] # "returned" => result[c] = "none"
  /\ \A c \in Calls :
       report[c] = "stored" \/ request[c] = "stored" => c \in Elements(topic)

LEMMA StoreAdds ==
  ASSUME TypeOK, NEW c \in Calls, topic' = Append(topic, c)
  PROVE  Elements(topic') = Elements(topic) \cup {c}
<1>1. topic \in Seq(Calls)
  BY DEF TypeOK
<1>2. /\ DOMAIN topic = 1..Len(topic)
      /\ DOMAIN topic' = 1..(Len(topic) + 1)
      /\ topic'[Len(topic) + 1] = c
      /\ \A i \in 1..Len(topic) : topic'[i] = topic[i]
      /\ Len(topic) \in Nat
  BY <1>1
<1> DEFINE n == Len(topic)
<1>3. Elements(topic) = {topic[i] : i \in 1..n}
  BY <1>2 DEF Elements
<1>4. Elements(topic') = {topic'[i] : i \in 1..(n + 1)}
  BY <1>2 DEF Elements
<1>5. 1..(n + 1) = (1..n) \cup {n + 1}
  BY <1>2
<1>6. {topic'[i] : i \in 1..n} = {topic[i] : i \in 1..n}
  BY <1>2
<1> QED
  BY <1>2, <1>3, <1>4, <1>5, <1>6

LEMMA ReportedInit == Init => Reported
  BY DEF Init, Reported, Elements

LEMMA ReportedNext == ASSUME TypeOK, Reported, [Next]_vars PROVE Reported'
<1> USE DEF TypeOK, Reported, dispatching, producer, broker, stopping
<1>1. ASSUME NEW c \in Calls, DispatchRefused(c) PROVE Reported'
  BY <1>1 DEF DispatchRefused, MayDispatch, Return
<1>2. ASSUME NEW c \in Calls, Produce(c) PROVE Reported'
  BY <1>2 DEF Produce, MayDispatch
<1>3. ASSUME NEW c \in Calls, ReceiveReport(c) PROVE Reported'
  BY <1>3 DEF ReceiveReport, Return
<1>4. ASSUME NEW c \in Calls, Store(c) PROVE Reported'
  BY <1>4, StoreAdds DEF Store
<1>5. ASSUME NEW c \in Calls, Acknowledge(c) \/ Reject(c) \/ Expire(c)
      PROVE  Reported'
  <2>1. PICK r \in {"stored", "rejected", "timedOut"} :
          /\ Settle(c, r)
          /\ r = "stored" => c \in Elements(topic)
    BY <1>5 DEF Acknowledge, Reject, Expire
  <2>2. request' \in {request, [request EXCEPT ![c] = "none"]}
    BY <1>5 DEF Acknowledge, Reject, Expire
  <2> QED
    BY <2>1, <2>2 DEF Settle
<1>7. ASSUME NEW c \in Calls, Send(c) \/ Lose(c) PROVE Reported'
  BY <1>7 DEF Send, Lose
<1>6. CASE Flush \/ FlushReturns \/ Close \/ Tick \/ UNCHANGED vars
  BY <1>6 DEF Flush, FlushReturns, Close, Tick, vars
<1> QED
  BY <1>1, <1>2, <1>3, <1>4, <1>5, <1>6, <1>7 DEF Next

(***************************************************************************)
(* Dispatch implements the contract: nil is only returned for a message     *)
(* that was stored.                                                         *)
(***************************************************************************)
outcomes == [c \in Calls |-> IF result[c] = "ErrProcessMessageTimedOut"
                               THEN "error" ELSE result[c]]

LEMMA OutcomeReturned ==
  ASSUME TypeOK, Reported, NEW c \in Calls, NEW value, Return(c, value),
         call[c] # "returned", Elements(topic') = Elements(topic),
         \/ value \in {"error", "ErrProcessMessageTimedOut"}
         \/ value = "nil" /\ c \in Elements(topic)
  PROVE  Contract!Next
<1>1. /\ outcomes[c] = "none"
      /\ outcomes' = [outcomes EXCEPT ![c] = IF value = "nil" THEN "nil"
                                                              ELSE "error"]
  BY DEF outcomes, TypeOK, Reported, Return
<1>2. CASE value = "nil"
  BY <1>1, <1>2 DEF Contract!Next, Contract!Succeed, outcomes
<1>3. CASE value # "nil"
  BY <1>1, <1>3 DEF Contract!Next, Contract!Fail, outcomes
<1> QED
  BY <1>2, <1>3

LEMMA ContractStep ==
  ASSUME TypeOK, Reported, [Next]_vars
  PROVE  [Contract!Next]_(Contract!vars)
<1>1. ASSUME NEW c \in Calls, DispatchRefused(c) PROVE Contract!Next
  BY <1>1, OutcomeReturned DEF DispatchRefused, MayDispatch, broker
<1>2. ASSUME NEW c \in Calls, ReceiveReport(c) PROVE Contract!Next
  <2> DEFINE value == DeliveryError(report[c])
  <2>1. \/ value \in {"error", "ErrProcessMessageTimedOut"}
        \/ value = "nil" /\ c \in Elements(topic)
    BY <1>2 DEF ReceiveReport, DeliveryError, TypeOK, Reports, Reported
  <2> QED
    BY <1>2, <2>1, OutcomeReturned DEF ReceiveReport, broker
<1>3. ASSUME NEW c \in Calls, Store(c) PROVE Contract!Next
  <2>1. outcomes' = outcomes
    BY <1>3 DEF Store, outcomes, dispatching
  <2>2. Elements(topic') = Elements(topic) \cup {c}
    BY <1>3, StoreAdds DEF Store
  <2> QED
    BY <2>1, <2>2 DEF Contract!Next, Contract!Store, outcomes
<1>4. ASSUME NEW c \in Calls,
             \/ Produce(c) \/ Send(c) \/ Lose(c)
             \/ Acknowledge(c) \/ Reject(c) \/ Expire(c)
      PROVE  UNCHANGED Contract!vars
  BY <1>4 DEF Produce, Send, Lose, Acknowledge, Reject, Expire, Settle,
              dispatching, broker, Contract!vars
<1>5. ASSUME Flush \/ FlushReturns \/ Close \/ Tick \/ UNCHANGED vars
      PROVE  UNCHANGED Contract!vars
  BY <1>5 DEF Flush, FlushReturns, Close, Tick, vars, dispatching, broker,
              Contract!vars
<1> QED
  BY <1>1, <1>2, <1>3, <1>4, <1>5 DEF Next

(* Dispatch keeps its contract: nil means that the broker has the message,  *)
(* however often it was sent, and whatever Shutdown does beside it.         *)
THEOREM ContractKept == Spec => KeepsContract
<1>1. Init => TypeOK /\ Reported
  BY TypeInit, ReportedInit
<1>2. TypeOK /\ Reported /\ [Next]_vars => (TypeOK /\ Reported)'
  BY TypeNext, ReportedNext
<1>3. Init => Contract!Init
  BY DEF Init, Contract!Init, Elements
<1>4. TypeOK /\ Reported /\ [Next]_vars => [Contract!Next]_(Contract!vars)
  BY ContractStep
<1> QED
  BY <1>1, <1>2, <1>3, <1>4, PTL DEF Spec, KeepsContract, Contract!Spec

-----------------------------------------------------------------------------
(***************************************************************************)
(* Order.  With one request in flight, it is for a message no younger than  *)
(* those the producer holds, and not older than what the broker has stored. *)
(***************************************************************************)
Ordered ==
  /\ NeverReordered
  /\ \A c, d \in InFlight : c = d
  /\ \A c \in InFlight, d \in held : order[c] <= order[d]
  /\ \A c \in held \cup InFlight, i \in DOMAIN topic : order[topic[i]] <= order[c]
  /\ \A c \in InFlight : call[c] # "idle"
  /\ \A i \in DOMAIN topic : call[topic[i]] # "idle"

LEMMA SentIsOldest ==
  ASSUME TypeOK, NEW c \in Calls, Send(c)
  PROVE  InFlight = {} /\ \A d \in held : order[c] <= order[d]
<1>1. IsFiniteSet(InFlight)
  BY DispatcherAssumption, FS_Subset DEF InFlight
<1>2. Cardinality(InFlight) < 1
  BY DEF Send, defaultMaxInFlight
<1>3. InFlight = {}
  BY <1>1, <1>2, FS_EmptySet, FS_CardinalityType
<1> QED
  BY <1>3 DEF Send, TypeOK

LEMMA OrderedNext == ASSUME TypeOK, Reported, Ordered, [Next]_vars PROVE Ordered'
<1> USE DEF TypeOK, Reported, Ordered, NeverReordered, InFlight, dispatching,
            producer, broker, stopping
<1>1. ASSUME NEW c \in Calls, DispatchRefused(c) \/ ReceiveReport(c)
      PROVE  Ordered'
  BY <1>1 DEF DispatchRefused, ReceiveReport, MayDispatch, Return
<1>2. ASSUME NEW c \in Calls, Produce(c) PROVE Ordered'
  <2>1. /\ order' = [order EXCEPT ![c] = accepted + 1]
        /\ held' = held \cup {c}
        /\ call' = [call EXCEPT ![c] = "waiting"]
        /\ topic' = topic /\ request' = request
        /\ call[c] = "idle" /\ c \notin held /\ request[c] = "none"
    BY <1>2 DEF Produce, MayDispatch
  <2>2. \A i \in DOMAIN topic : topic[i] \in Calls /\ topic[i] # c
    BY <2>1
  <2>3. \A i \in DOMAIN topic : order'[topic[i]] = order[topic[i]]
    BY <2>1, <2>2
  <2>4. \A d \in held : d # c /\ order'[d] = order[d]
    BY <2>1
  <2>5. \A i \in DOMAIN topic : order'[topic[i]] <= order'[c]
    BY <2>1, <2>2, <2>3
  <2>6. \A d \in InFlight : order'[d] = order[d] /\ order'[d] <= order'[c]
    BY <2>1
  <2> QED
    BY <2>1, <2>2, <2>3, <2>4, <2>5, <2>6
<1>3. ASSUME NEW c \in Calls, Store(c) PROVE Ordered'
  <2>1. c \in InFlight /\ InFlight' = InFlight
    BY <1>3 DEF Store
  <2>2. /\ topic' = Append(topic, c)
        /\ UNCHANGED <<order, held, call>>
    BY <1>3 DEF Store
  <2>3. /\ DOMAIN topic = 1..Len(topic)
        /\ DOMAIN topic' = 1..(Len(topic) + 1)
        /\ topic'[Len(topic) + 1] = c
        /\ \A i \in 1..Len(topic) : topic'[i] = topic[i] /\ topic[i] \in Calls
        /\ Len(topic) \in Nat
    BY <2>2
  <2>4. /\ \A i \in 1..Len(topic) : order[topic[i]] <= order[c]
        /\ \A i \in 1..Len(topic) : \A j \in 1..Len(topic) :
             i < j => order[topic[i]] <= order[topic[j]]
    BY <2>1, <2>3
  <2>5. NeverReordered'
    <3> SUFFICES ASSUME NEW i \in DOMAIN topic', NEW j \in DOMAIN topic', i < j
                 PROVE  order'[topic'[i]] <= order'[topic'[j]]
      OBVIOUS
    <3>1. i \in 1..Len(topic) /\ (j \in 1..Len(topic) \/ j = Len(topic) + 1)
      BY <2>3
    <3> QED
      BY <2>2, <2>3, <2>4, <3>1
  <2>6. \A d \in held \cup InFlight, i \in DOMAIN topic' :
          order'[topic'[i]] <= order'[d]
    BY <2>1, <2>2, <2>3
  <2>7. \A i \in DOMAIN topic' : call'[topic'[i]] # "idle"
    BY <2>1, <2>2, <2>3
  <2> HIDE DEF NeverReordered, InFlight
  <2> QED
    BY <2>1, <2>2, <2>5, <2>6, <2>7
<1>4. ASSUME NEW c \in Calls,
             Acknowledge(c) \/ Reject(c) \/ Expire(c) \/ Lose(c)
      PROVE  Ordered'
  <2>1. /\ held' \subseteq held /\ UNCHANGED <<call, order, topic>>
        /\ request' \in {request, [request EXCEPT ![c] = "none"]}
    BY <1>4 DEF Acknowledge, Reject, Expire, Lose, Settle
  <2>2. InFlight' \subseteq InFlight
    BY <2>1
  <2> HIDE DEF InFlight
  <2> QED
    BY <2>1, <2>2
<1>6. ASSUME NEW c \in Calls, Send(c) PROVE Ordered'
  <2>1. /\ InFlight = {} /\ InFlight' = {c} /\ c \in held
        /\ \A d \in held : order[c] <= order[d]
        /\ UNCHANGED <<call, held, order, topic>>
    <3>1. InFlight = {} /\ \A d \in held : order[c] <= order[d]
      BY <1>6, SentIsOldest
    <3>2. /\ c \in held /\ request' = [request EXCEPT ![c] = "sent"]
          /\ UNCHANGED <<call, held, order, topic>>
      BY <1>6 DEF Send
    <3> QED
      BY <3>1, <3>2
  <2> QED
    BY <2>1
<1>5. CASE Flush \/ FlushReturns \/ Close \/ Tick \/ UNCHANGED vars
  BY <1>5 DEF Flush, FlushReturns, Close, Tick, vars
<1> QED
  BY <1>1, <1>2, <1>3, <1>4, <1>5, <1>6 DEF Next

(* No retry puts a message behind one that Produce accepted after it.       *)
THEOREM OrderKept == Spec => []NeverReordered
<1>1. Init => TypeOK /\ Reported /\ Ordered
  BY TypeInit, ReportedInit DEF Init, Ordered, NeverReordered, InFlight
<1>2. TypeOK /\ Reported /\ Ordered /\ [Next]_vars
        => (TypeOK /\ Reported /\ Ordered)'
  BY TypeNext, ReportedNext, OrderedNext
<1>3. Ordered => NeverReordered
  BY DEF Ordered
<1> QED
  BY <1>1, <1>2, <1>3, PTL DEF Spec

-----------------------------------------------------------------------------
(***************************************************************************)
(* Shutdown.  What is held when it starts is at least as old as its flush,  *)
(* and no message outlives its own deadline.                                *)
(***************************************************************************)
WholeFlush == messageTimeoutMs >= FlushTimeout /\ flushed = FlushTimeout

Flushing ==
  /\ shutdown = "idle" => flushed = 0
  /\ shutdown = "flushing" => \A c \in held \ beside : flushed <= age[c]
  /\ shutdown = "closing" => \A c \in held \ beside : WholeFlush
  /\ shutdown = "returned" => held = {}
  /\ \A c \in Calls : call[c] = "waiting" /\ report[c] = "none" =>
       \/ c \in held
       \/ shutdown = "returned" /\ (c \in beside \/ WholeFlush)

LEMMA FlushingNext == ASSUME TypeOK, Flushing, [Next]_vars PROVE Flushing'
<1> USE DispatcherAssumption
    DEF TypeOK, Flushing, WholeFlush, dispatching, producer, broker, stopping
<1>1. ASSUME NEW c \in Calls, DispatchRefused(c) \/ ReceiveReport(c) PROVE Flushing'
  BY <1>1 DEF DispatchRefused, ReceiveReport, MayDispatch, Return
<1>2. ASSUME NEW c \in Calls, Produce(c) PROVE Flushing'
  <2>1. /\ shutdown # "returned" /\ held' = held \cup {c}
        /\ beside' = IF shutdown = "idle" THEN beside ELSE beside \cup {c}
        /\ call' = [call EXCEPT ![c] = "waiting"]
        /\ UNCHANGED <<messageTimeoutMs, age, report, shutdown, flushed>>
    BY <1>2 DEF Produce, MayDispatch
  <2> QED
    BY <2>1
<1>3. ASSUME NEW c \in Calls, Send(c) \/ Store(c) \/ Lose(c) PROVE Flushing'
  BY <1>3 DEF Send, Store, Lose
<1>4. ASSUME NEW c \in Calls, Acknowledge(c) \/ Reject(c) \/ Expire(c)
      PROVE  Flushing'
  <2>1. PICK r \in {"stored", "rejected", "timedOut"} : Settle(c, r)
    BY <1>4 DEF Acknowledge, Reject, Expire
  <2> QED
    BY <2>1 DEF Settle
<1>5. CASE Flush
  <2>1. /\ shutdown = "idle" /\ shutdown' = "flushing"
        /\ UNCHANGED <<call, held, beside, age, report, flushed>>
    BY <1>5 DEF Flush
  <2>2. \A c \in held : age[c] \in Nat
    OBVIOUS
  <2> QED
    BY <2>1, <2>2
<1>6. CASE FlushReturns
  <2>1. /\ shutdown = "flushing" /\ shutdown' = "closing"
        /\ held = {} \/ flushed >= FlushTimeout
        /\ UNCHANGED <<messageTimeoutMs, call, held, beside, report, flushed>>
    BY <1>6 DEF FlushReturns
  <2>2. ASSUME NEW c \in held \ beside PROVE WholeFlush
    <3>1. flushed <= age[c] /\ age[c] \in 0..messageTimeoutMs
      BY <2>1
    <3>2. messageTimeoutMs \in Nat /\ flushed \in 0..FlushTimeout
      OBVIOUS
    <3> QED
      BY <2>1, <3>1, <3>2
  <2> QED
    BY <2>1, <2>2
<1>7. CASE Close
  BY <1>7 DEF Close
<1>8. CASE Tick
  <2>1. /\ held # {} /\ shutdown # "returned"
        /\ age' = [c \in Calls |-> IF c \in held THEN age[c] + 1 ELSE age[c]]
        /\ flushed' = IF shutdown = "flushing" THEN flushed + 1 ELSE flushed
        /\ UNCHANGED <<messageTimeoutMs, call, held, beside, report, shutdown>>
    BY <1>8 DEF Tick
  <2>2. \A c \in held : age[c] \in Nat /\ age'[c] = age[c] + 1
    BY <2>1
  <2>3. flushed \in Nat
    OBVIOUS
  <2> QED
    BY <2>1, <2>2, <2>3
<1>9. CASE UNCHANGED vars
  BY <1>9 DEF vars
<1> QED
  BY <1>1, <1>2, <1>3, <1>4, <1>5, <1>6, <1>7, <1>8, <1>9 DEF Next

(* dispatcher.go:38-41: whatever the timeouts are, and whoever dispatches   *)
(* beside it, Shutdown only drops a message that was accepted beside it, or *)
(* one that has longer to be delivered than the flush lasts, and then after *)
(* a flush of its full length.                                              *)
THEOREM OnlyLateDropped == Spec => []DroppedOnlyLate
<1>1. Init => TypeOK /\ Flushing
  BY TypeInit DEF Init, Flushing
<1>2. TypeOK /\ Flushing /\ [Next]_vars => (TypeOK /\ Flushing)'
  BY TypeNext, FlushingNext
<1>3. Flushing => DroppedOnlyLate
  BY DEF Flushing, WholeFlush, DroppedOnlyLate, Dropped
<1> QED
  BY <1>1, <1>2, <1>3, PTL DEF Spec
=============================================================================
