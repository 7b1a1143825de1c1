------------------------------ MODULE Consumer ------------------------------
(***************************************************************************)
(* The Kafka consumer of pkg/stream/consumer (consumer.go): the poll loop   *)
(* that Run starts, the processing of one message (decode, skip, handle,    *)
(* retry, dead letter), the commit that follows it, and the shutdown        *)
(* protocol played over three channels by the loop, by the goroutine that   *)
(* reports a failure of the loop, and by the callers of Shutdown.           *)
(*                                                                          *)
(* The process can crash between any two steps.  What survives is on the    *)
(* broker: the committed offsets and the dead letter topic.                 *)
(*                                                                          *)
(* External and reduced to what the code relies on: the Kafka client (it    *)
(* hands out the messages of a partition in offset order from a position,   *)
(* commits one past the offset it is given, and may fail at any call), the  *)
(* handler (any outcome at any call), the dispatcher (see Dispatcher) and   *)
(* the backoff library (elapsed time against MaxElapsedTime).               *)
(*                                                                          *)
(* The process is one member of a consumer group.  Subscribe is given no    *)
(* rebalance callback, so the client takes and gives up partitions between  *)
(* any two steps of the loop.  The other members run the same program: they *)
(* are modelled by what it guarantees of every member, that a message is    *)
(* resolved after the ones before it and an offset only committed past      *)
(* messages that are resolved.  Nothing orders the members among each other:*)
(* two of them can work on the same message, and a commit can come late.    *)
(***************************************************************************)
EXTENDS Message

LOCAL INSTANCE SequencesExt

CONSTANTS
  Partitions,      \* partitions of the subscribed topic
  Log,             \* Log[p]: the messages of partition p, offset o at o + 1
  Skippable,       \* payloads whose content handler.ShouldSkip accepts
  Runs,            \* the calls of Run the application may make
  Callers,         \* the goroutines that may call the returned Shutdown
  Sentinels,       \* the error values the errors of the handler may wrap
  RetryOptions,    \* what the handler gives to NewConfigRetry
  MaxTick,         \* bound: longest attempt plus wait of the backoff, in ticks
  MaxCrashes       \* bound: crashes of the process in a behaviour

LogMessages == [headers : Seq([key : STRING, value : STRING]), value : Payloads]

(* WithRetryableErrors and WithMaxElapsedTime, in ticks.  The intervals only *)
(* shape the waits, which may be of any length up to MaxTick.               *)
RetryOption ==
  [sets : {"RetryableErrors"}, to : SUBSET Sentinels] \cup
  [sets : {"MaxElapsedTime"}, to : Nat]

ASSUME ConsumerAssumption ==
  /\ Log \in [Partitions -> Seq(LogMessages)]
  /\ Skippable \subseteq Payloads
  /\ RetryOptions \in Seq(RetryOption)
  /\ MaxTick \in Nat \ {0}
  /\ MaxCrashes \in Nat

(* A message is known by the partition and the offset it was read at. *)
MsgIds == [part : Partitions, offset : Nat]
NoMsg  == [part |-> "none", offset |-> 0]
Message(m) == Log[m.part][m.offset + 1]

VARIABLES
  (* on the broker *)
  committed,  \* committed[p]: the group offset, next message to deliver
  dlt,        \* records published on the dead letter topic
  (* what became of the messages, over all incarnations of the process *)
  handled,    \* messages for which a call of Handle returned nil
  skipped,    \* messages acknowledged without being handled
  (* the process *)
  client,     \* "open" until client.Close
  assigned,   \* partitions the group has assigned to the client
  position,   \* position[p]: next offset ReadMessage returns, 0 if unassigned
  loop,       \* loop[r]: where the goroutine of the r-th Run stands
  inHand,     \* inHand[r]: the message being processed
  lastErr,    \* lastErr[r]: the last error of Handle, while it is retried
  elapsed,    \* elapsed[r]: ticks spent in the running retry sequence
  reporter,   \* reporter[r]: where startingShutdownInternally stands
  caller,     \* caller[c]: where a call of Shutdown stands
  started,    \* tokens in shutdownStarted
  finished,   \* tokens in shutdownFinished
  listener,   \* errors in shutdownListener
  crashes     \* crashes so far

outcome  == <<handled, skipped, dlt>>
channels == <<started, finished, listener>>
reading  == <<assigned, position, inHand>>
retrying == <<lastErr, elapsed>>
others   == <<reporter, caller, client, crashes>>
vars == <<committed, outcome, channels, reading, retrying, loop, others>>

DeadLettered == {d.src : d \in dlt}
Resolved     == handled \cup skipped \cup DeadLettered

(* The messages of a partition below an offset. *)
Before(p, end) == {m \in [part : {p}, offset : 0..end] : m.offset < end}

(* Capacity of each of the three channels. *)
ChanCap == 1

(* An error, by the sentinels errors.Is finds in its chain. *)
Errors == SUBSET Sentinels

-----------------------------------------------------------------------------
(* ConfigRetry *)

ZeroConfigRetry == [RetryableErrors |-> {}, MaxElapsedTime |-> 0]

(* Every option sets its field of the settings. *)
NewConfigRetry(options) ==
  FoldLeft(LAMBDA config, option : [config EXCEPT ![option.sets] = option.to],
           ZeroConfigRetry, options)

ConfigRetry == NewConfigRetry(RetryOptions)

ShouldRetry(err, list) == err \cap list # {}

-----------------------------------------------------------------------------
(* Without an assignment there is no position. *)
Unassigned == [p \in Partitions |-> 0]

(* New: the client exists, nothing is subscribed, the channels are empty. *)
Init ==
  /\ committed = [p \in Partitions |-> 0]
  /\ dlt = {}
  /\ handled = {}
  /\ skipped = {}
  /\ crashes = 0
  /\ client = "open"
  /\ assigned = {}
  /\ position = Unassigned
  /\ loop = [r \in Runs |-> "idle"]
  /\ inHand = [r \in Runs |-> NoMsg]
  /\ lastErr = [r \in Runs |-> {}]
  /\ elapsed = [r \in Runs |-> 0]
  /\ reporter = [r \in Runs |-> "none"]
  /\ caller = [c \in Callers |-> "idle"]
  /\ started = 0
  /\ finished = 0
  /\ listener = 0

-----------------------------------------------------------------------------
(* The goroutine of Run *)

At(r, label)   == loop[r] = label
Goto(r, label) == loop' = [loop EXCEPT ![r] = label]

(* Subscribe succeeds, and an assignment will follow, or it fails and no    *)
(* goroutine is started.                                                    *)
Run(r) ==
  /\ At(r, "idle")
  /\ \/ /\ client = "open"
        /\ Goto(r, "select")
        /\ assigned' = {} /\ position' = Unassigned
     \/ Goto(r, "unsubscribed") /\ UNCHANGED <<assigned, position>>
  /\ UNCHANGED <<committed, outcome, channels, inHand, retrying, others>>

(* Mutant of LoopFails: the error is logged and the loop reads on. *)
LoopContinues(r) ==
  /\ Goto(r, "select")
  /\ inHand' = [inHand EXCEPT ![r] = NoMsg]
  /\ UNCHANGED <<channels, assigned, position, others>>

(* readMessage returned an error: the loop ends, a goroutine reports it. *)
LoopFails(r) ==
  /\ Goto(r, "stopped")
  /\ inHand' = [inHand EXCEPT ![r] = NoMsg]
  /\ reporter' = [reporter EXCEPT ![r] = "reporting"]
  /\ UNCHANGED <<channels, assigned, position, caller, client, crashes>>

(* The select prefers a pending shutdown over one more poll.  The wait      *)
(* group never makes the loop wait: every readMessage has called Done.      *)
Select(r) ==
  /\ At(r, "select")
  /\ IF started > 0
       THEN Goto(r, "stopping") /\ started' = started - 1
       ELSE Goto(r, "reading") /\ UNCHANGED started
  /\ UNCHANGED <<committed, outcome, finished, listener, reading, retrying,
                 others>>

(* Mutant of LoopFinishes: a deferred send beside the explicit one. *)
LoopFinishesTwice(r) ==
  /\ At(r, "stopping")
  /\ finished' = finished + 2
  /\ Goto(r, "stopped")
  /\ UNCHANGED <<committed, outcome, started, listener, reading, retrying,
                 others>>

LoopFinishes(r) ==
  /\ At(r, "stopping")
  /\ finished < ChanCap
  /\ finished' = finished + 1
  /\ Goto(r, "stopped")
  /\ UNCHANGED <<committed, outcome, started, listener, reading, retrying,
                 others>>

ReadMessage(r) ==
  /\ At(r, "reading")
  /\ client = "open"
  /\ \E p \in assigned :
       /\ position[p] < Len(Log[p])
       /\ inHand' = [inHand EXCEPT
                       ![r] = [part |-> p, offset |-> position[p]]]
       /\ position' = [position EXCEPT ![p] = @ + 1]
  /\ Goto(r, "received")
  /\ UNCHANGED <<committed, outcome, channels, assigned, retrying, others>>

(* kafka.ErrTimedOut is not a failure: back to the select. *)
ReadTimesOut(r) ==
  /\ At(r, "reading")
  /\ Goto(r, "select")
  /\ UNCHANGED <<committed, outcome, channels, reading, retrying, others>>

ReadFails(r) ==
  /\ At(r, "reading")
  /\ LoopFails(r)
  /\ UNCHANGED <<committed, outcome, retrying>>

-----------------------------------------------------------------------------
(* processMessage *)

(* Mutant of ProcessMessage: what does not decode is dropped.  *)
ProcessDropsUndecodable(r) ==
  LET message == Message(inHand[r])
      kept    == Decodes(message) /\ message.value \notin Skippable
  IN  /\ At(r, "received")
      /\ Goto(r, IF kept THEN "handle" ELSE "commit")
      /\ skipped' = IF Decodes(message) /\ ~kept THEN skipped \cup {inHand[r]}
                                                  ELSE skipped
      /\ UNCHANGED <<committed, handled, dlt, channels, reading, retrying,
                     others>>

(* Up to the first call of Handle: the codec, the content, ShouldSkip. *)
ProcessMessage(r) ==
  LET message == Message(inHand[r])
  IN  /\ At(r, "received")
      /\ \/ /\ ~Decodes(message)
            /\ Goto(r, "dispatchText")
            /\ UNCHANGED skipped
         \/ /\ Decodes(message) /\ message.value \in Skippable
            /\ Goto(r, "commit")
            /\ skipped' = skipped \cup {inHand[r]}
         \/ /\ Decodes(message) /\ message.value \notin Skippable
            /\ Goto(r, "handle")
            /\ UNCHANGED skipped
      /\ UNCHANGED <<committed, handled, dlt, channels, reading, retrying,
                     others>>

(* The error and the clock of a retry sequence, which end with it. *)
Retried(r, err, spent) ==
  /\ lastErr' = [lastErr EXCEPT ![r] = err]
  /\ elapsed' = [elapsed EXCEPT ![r] = spent]

HandleSucceeds(r) ==
  /\ At(r, "handle") \/ At(r, "retry")
  /\ handled' = handled \cup {inHand[r]}
  /\ Goto(r, "commit")
  /\ Retried(r, {}, 0)
  /\ UNCHANGED <<committed, skipped, dlt, channels, reading, others>>

(* shouldRetry looks at the error of this first call and of no other. *)
HandleFails(r) ==
  /\ At(r, "handle")
  /\ \E err \in Errors :
       IF ShouldRetry(err, ConfigRetry.RetryableErrors)
         THEN Goto(r, "retry") /\ Retried(r, err, 0)
         ELSE Goto(r, "dispatch") /\ UNCHANGED retrying
  /\ UNCHANGED <<committed, outcome, channels, reading, others>>

(* NextBackOff stops when the wait to come would exceed MaxElapsedTime, and *)
(* never when MaxElapsedTime is zero; the clock is then not kept.           *)
GivesUp(spent) ==
  ConfigRetry.MaxElapsedTime # 0 /\ spent > ConfigRetry.MaxElapsedTime

(* Mutant of RetryFails: the clock starts again with every retry. *)
ClockRestarts(r) ==
  /\ At(r, "retry")
  /\ \E err \in Errors, ticks \in 1..MaxTick :
       IF GivesUp(ticks)
         THEN Goto(r, "dispatch") /\ Retried(r, {}, 0)
         ELSE UNCHANGED loop /\ Retried(r, err, 0)
  /\ UNCHANGED <<committed, outcome, channels, reading, others>>

RetryFails(r) ==
  /\ At(r, "retry")
  /\ \E err \in Errors, ticks \in 1..MaxTick :
       LET spent == elapsed[r] + ticks
       IN  IF GivesUp(spent)
             THEN Goto(r, "dispatch") /\ Retried(r, {}, 0)
             ELSE /\ UNCHANGED loop
                  /\ Retried(r, err,
                       IF ConfigRetry.MaxElapsedTime = 0 THEN 0 ELSE spent)
  /\ UNCHANGED <<committed, outcome, channels, reading, others>>

-----------------------------------------------------------------------------
(* The dead letter topic *)

(* Mutant of DeadLetter: everything goes out as text. *)
DeadLetterAsText(r) ==
  [src |-> inHand[r], payload |-> NewTextMessage(Message(inHand[r]))]

(* dispatchToDeadLetterTopic re-encodes the decoded content with the codec  *)
(* it came with; dispatchToDeadLetterTopicAsText sends the raw bytes.       *)
DeadLetterOf(m, decoded) ==
  [src |-> m,
   payload |-> IF decoded THEN NewWithData(Message(m))
                          ELSE NewTextMessage(Message(m))]

DeadLetter(r) == DeadLetterOf(inHand[r], At(r, "dispatch"))

DispatchSucceeds(r) ==
  /\ At(r, "dispatch") \/ At(r, "dispatchText")
  /\ dlt' = dlt \cup {DeadLetter(r)}
  /\ Goto(r, "commit")
  /\ UNCHANGED <<committed, handled, skipped, channels, reading, retrying,
                 others>>

(* Dispatch returned an error; after a delivery timeout the record may have *)
(* reached the topic all the same.                                          *)
DispatchFails(r) ==
  /\ At(r, "dispatch") \/ At(r, "dispatchText")
  /\ dlt' \in {dlt, dlt \cup {DeadLetter(r)}}
  /\ LoopFails(r)
  /\ UNCHANGED <<committed, handled, skipped, retrying>>

-----------------------------------------------------------------------------
(* The commit *)

(* CommitMessage stores one past the offset of the message it is given,     *)
(* wherever the offset of the group stood and whoever owns the partition.   *)
CommitOffset(m) ==
  [committed EXCEPT ![m.part] = m.offset + 1]

CommitMessage(r) ==
  /\ At(r, "commit")
  /\ client = "open"
  /\ committed' = CommitOffset(inHand[r])
  /\ inHand' = [inHand EXCEPT ![r] = NoMsg]
  /\ Goto(r, "select")
  /\ UNCHANGED <<outcome, channels, assigned, position, retrying, others>>

(* The commit reported an error, as it does when the member was evicted from *)
(* the group; the broker may have stored it first.                          *)
CommitFails(r) ==
  /\ At(r, "commit")
  /\ committed' \in {committed, CommitOffset(inHand[r])}
  /\ LoopFails(r)
  /\ UNCHANGED <<outcome, retrying>>

-----------------------------------------------------------------------------
(* startingShutdownInternally *)

ReporterGoto(r, label) == reporter' = [reporter EXCEPT ![r] = label]

ReportError(r) ==
  /\ reporter[r] = "reporting"
  /\ listener < ChanCap
  /\ listener' = listener + 1
  /\ ReporterGoto(r, "waiting")
  /\ UNCHANGED <<committed, outcome, started, finished, reading, retrying,
                 loop, caller, client, crashes>>

(* Mutant of ReporterSeesShutdown: nobody answers the shutdown it saw. *)
ReporterForgets(r) ==
  /\ reporter[r] = "waiting"
  /\ started > 0
  /\ started' = started - 1
  /\ ReporterGoto(r, "done")
  /\ UNCHANGED <<committed, outcome, finished, listener, reading, retrying,
                 loop, caller, client, crashes>>

ReporterSeesShutdown(r) ==
  /\ reporter[r] = "waiting"
  /\ started > 0
  /\ started' = started - 1
  /\ ReporterGoto(r, "finishing")
  /\ UNCHANGED <<committed, outcome, finished, listener, reading, retrying,
                 loop, caller, client, crashes>>

ReporterFinishes(r) ==
  /\ reporter[r] = "finishing"
  /\ finished < ChanCap
  /\ finished' = finished + 1
  /\ ReporterGoto(r, "done")
  /\ UNCHANGED <<committed, outcome, started, listener, reading, retrying,
                 loop, caller, client, crashes>>

-----------------------------------------------------------------------------
(* The application *)

CallerGoto(c, label) == caller' = [caller EXCEPT ![c] = label]

(* The application may read ListenShutdown, or never do so. *)
ListenShutdown ==
  /\ listener > 0
  /\ listener' = listener - 1
  /\ UNCHANGED <<committed, outcome, started, finished, reading, retrying,
                 loop, others>>

(* Only a Run that returned without error hands out a Shutdown. *)
CallShutdown(c) ==
  /\ caller[c] = "idle"
  /\ \E r \in Runs : loop[r] \notin {"idle", "unsubscribed"}
  /\ CallerGoto(c, "starting")
  /\ UNCHANGED <<committed, outcome, channels, reading, retrying, loop,
                 reporter, client, crashes>>

(* Mutant of StartShutdown: the client is closed without the answer. *)
StartShutdownOnly(c) ==
  /\ caller[c] = "starting"
  /\ started < ChanCap
  /\ started' = started + 1
  /\ CallerGoto(c, "closing")
  /\ UNCHANGED <<committed, outcome, finished, listener, reading, retrying,
                 loop, reporter, client, crashes>>

StartShutdown(c) ==
  /\ caller[c] = "starting"
  /\ started < ChanCap
  /\ started' = started + 1
  /\ CallerGoto(c, "waiting")
  /\ UNCHANGED <<committed, outcome, finished, listener, reading, retrying,
                 loop, reporter, client, crashes>>

SeeFinished(c) ==
  /\ caller[c] = "waiting"
  /\ finished > 0
  /\ finished' = finished - 1
  /\ CallerGoto(c, "closing")
  /\ UNCHANGED <<committed, outcome, started, listener, reading, retrying,
                 loop, reporter, client, crashes>>

(* The deferred client.Close leaves the group. *)
Close(c) ==
  /\ caller[c] = "closing"
  /\ client' = "closed"
  /\ assigned' = {} /\ position' = Unassigned
  /\ CallerGoto(c, "returned")
  /\ UNCHANGED <<committed, outcome, channels, inHand, retrying, loop,
                 reporter, crashes>>

-----------------------------------------------------------------------------
(* The consumer group *)

Subscribed == client = "open" /\ \E r \in Runs : loop[r] \notin {"idle", "unsubscribed"}

(* The client starts a partition at the offset of the group. *)
Assign(p) ==
  /\ Subscribed /\ p \notin assigned
  /\ assigned' = assigned \cup {p}
  /\ position' = [position EXCEPT ![p] = committed[p]]
  /\ UNCHANGED <<committed, outcome, channels, inHand, retrying, loop, others>>

(* Another member takes the partition, or this one was evicted; a message of *)
(* it may be in hand.                                                       *)
Revoke(p) ==
  /\ p \in assigned
  /\ assigned' = assigned \ {p}
  /\ position' = [position EXCEPT ![p] = 0]
  /\ UNCHANGED <<committed, outcome, channels, inHand, retrying, loop, others>>

(* Another member handles, skips or dead-letters a message. *)
PeerResolves(p) ==
  /\ \E o \in 0..(Len(Log[p]) - 1) :
       LET m       == [part |-> p, offset |-> o]
           message == Message(m)
           skips   == Decodes(message) /\ message.value \in Skippable
       IN  /\ Before(p, o) \subseteq Resolved
           /\ \/ /\ skips
                 /\ skipped' = skipped \cup {m}
                 /\ UNCHANGED <<handled, dlt>>
              \/ /\ Decodes(message) /\ ~skips
                 /\ handled' = handled \cup {m}
                 /\ UNCHANGED <<skipped, dlt>>
              \/ /\ ~skips
                 /\ dlt' = dlt \cup {DeadLetterOf(m, Decodes(message))}
                 /\ UNCHANGED <<handled, skipped>>
  /\ UNCHANGED <<committed, channels, reading, retrying, loop, others>>

(* It commits past messages that are resolved, perhaps long after they were:*)
(* the offset of the group can go back.                                     *)
PeerCommits(p) ==
  /\ \E o \in 1..Len(Log[p]) :
       /\ Before(p, o) \subseteq Resolved
       /\ committed' = [committed EXCEPT ![p] = o]
  /\ UNCHANGED <<outcome, channels, reading, retrying, loop, others>>

-----------------------------------------------------------------------------

(* The process dies, or ends, and is started again. *)
Restart ==
  /\ crashes < MaxCrashes
  /\ crashes' = crashes + 1
  /\ UNCHANGED <<committed, outcome>>
  /\ client' = "open"
  /\ assigned' = {}
  /\ position' = Unassigned
  /\ loop' = [r \in Runs |-> "idle"]
  /\ inHand' = [r \in Runs |-> NoMsg]
  /\ lastErr' = [r \in Runs |-> {}]
  /\ elapsed' = [r \in Runs |-> 0]
  /\ reporter' = [r \in Runs |-> "none"]
  /\ caller' = [c \in Callers |-> "idle"]
  /\ started' = 0
  /\ finished' = 0
  /\ listener' = 0

-----------------------------------------------------------------------------
Process(r) ==
  \/ ProcessMessage(r)
  \/ HandleSucceeds(r)
  \/ HandleFails(r)
  \/ RetryFails(r)
  \/ DispatchSucceeds(r)
  \/ DispatchFails(r)
  \/ CommitMessage(r)
  \/ CommitFails(r)

Poll(r) ==
  \/ Select(r)
  \/ LoopFinishes(r)
  \/ ReadMessage(r)
  \/ ReadTimesOut(r)
  \/ ReadFails(r)

Reporter(r) ==
  \/ ReportError(r)
  \/ ReporterSeesShutdown(r)
  \/ ReporterFinishes(r)

Shutdown(c) ==
  \/ StartShutdown(c)
  \/ SeeFinished(c)
  \/ Close(c)

Group ==
  \E p \in Partitions :
    Assign(p) \/ Revoke(p) \/ PeerResolves(p) \/ PeerCommits(p)

Next ==
  \/ \E r \in Runs : Run(r) \/ Poll(r) \/ Process(r) \/ Reporter(r)
  \/ \E c \in Callers : CallShutdown(c) \/ Shutdown(c)
  \/ ListenShutdown
  \/ Group
  \/ Restart

Spec == Init /\ [][Next]_vars

(* The scheduler runs every goroutine that can go on, Handle, Dispatch and  *)
(* the Kafka client return from every call.  Nothing obliges the            *)
(* application to call Run, to call Shutdown or to read ListenShutdown.     *)
Fairness ==
  /\ \A r \in Runs : WF_vars(Poll(r) \/ Process(r)) /\ WF_vars(Reporter(r))
  /\ \A c \in Callers : WF_vars(Shutdown(c))

FairSpec == Spec /\ Fairness

-----------------------------------------------------------------------------
LoopLabels ==
  {"idle", "unsubscribed", "select", "reading", "received", "handle", "retry",
   "dispatch", "dispatchText", "commit", "stopping", "stopped"}

Holding(r) ==
  loop[r] \in {"received", "handle", "retry", "dispatch", "dispatchText",
               "commit"}

TypeOK ==
  /\ committed \in [Partitions -> Nat]
  /\ assigned \subseteq Partitions
  /\ position \in [Partitions -> Nat]
  /\ handled \subseteq MsgIds
  /\ skipped \subseteq MsgIds
  /\ DeadLettered \subseteq MsgIds
  /\ client \in {"open", "closed"}
  /\ loop \in [Runs -> LoopLabels]
  /\ inHand \in [Runs -> MsgIds \cup {NoMsg}]
  /\ lastErr \in [Runs -> Errors]
  /\ elapsed \in [Runs -> Nat]
  /\ reporter \in [Runs -> {"none", "reporting", "waiting", "finishing", "done"}]
  /\ caller \in [Callers -> {"idle", "starting", "waiting", "closing", "returned"}]
  /\ started \in 0..ChanCap
  /\ finished \in 0..ChanCap
  /\ listener \in 0..ChanCap
  /\ crashes \in 0..MaxCrashes

(* At least once: every message below a committed offset was handled        *)
(* without error, skipped, or is on the dead letter topic.  It is what the  *)
(* order "process, then commit" and the loop that ends on any failure       *)
(* (consumer.go:277-285, 114-118) are for.                                  *)
NoMessageLost ==
  \A p \in Partitions : Before(p, committed[p]) \subseteq Resolved

(* A message is only processed when every earlier message of its partition  *)
(* is resolved: a failed message is never overtaken by a later one.         *)
InOrder ==
  \A r \in Runs :
    Holding(r) => Before(inHand[r].part, inHand[r].offset) \subseteq Resolved

(* The client is never closed under a loop that may still use it: Shutdown  *)
(* waits for the message being processed, then closes (consumer.go:25-26).  *)
DrainedBeforeClose ==
  client = "closed" =>
    \A r \in Runs : loop[r] \in {"idle", "unsubscribed", "stopped"}

(* The answer somebody sent, or somebody took, to a call of Shutdown. *)
Answered == finished > 0 \/ \E c \in Callers : caller[c] \in {"closing", "returned"}

(* The loop, or the goroutine that reports its failure, can take its next   *)
(* step in the protocol of the three channels.                              *)
CanGoOn(r) ==
  \/ loop[r] \notin {"idle", "unsubscribed", "stopping", "stopped"}
  \/ loop[r] = "stopping" /\ finished < ChanCap
  \/ reporter[r] = "reporting" /\ listener < ChanCap
  \/ reporter[r] = "waiting" /\ started > 0
  \/ reporter[r] = "finishing" /\ finished < ChanCap

(* The protocol never locks up: while a caller of Shutdown waits and none   *)
(* had an answer yet, the one that owes it is not waiting for a token that  *)
(* is lost, or for room in a channel nobody reads (consumer.go:104-139,     *)
(* 304-315).                                                                *)
ShutdownProceeds ==
  (\E c \in Callers : caller[c] = "waiting") /\ ~Answered =>
    \E r \in Runs : CanGoOn(r)

(* A record on the dead letter topic can be consumed again: if its source   *)
(* decoded into T then so does the record, under the header it was sent     *)
(* with (consumer.go:224, message.go:79-118, dispatcher.go:62-67).          *)
DeadLettersDecode ==
  \A d \in dlt : Decodes(Message(d.src)) => Decodes(Produced(d.payload))

(* Once somebody calls Shutdown the client is closed, whatever the loop was *)
(* doing and even if it failed on its own (a crash ends the call instead).  *)
ShutdownCloses ==
  (\E c \in Callers : caller[c] # "idle")
    ~> (client = "closed" \/ \A c \in Callers : caller[c] = "idle")

(* A message in hand is settled: the loop commits it or ends.  With a       *)
(* MaxElapsedTime the retries cannot hold the loop for ever.                *)
MessageSettles ==
  \A r \in Runs : Holding(r) ~> ~Holding(r)

-----------------------------------------------------------------------------
(* The detailed consumer implements the abstract one. *)
Abstract == INSTANCE AtLeastOnce WITH
  Length   <- [p \in Partitions |-> Len(Log[p])],
  offset   <- committed,
  resolved <- Resolved

(* Every step of the consumer and of the group around it resolves a message *)
(* after the ones before it, puts an offset where everything below it is    *)
(* resolved, or changes neither.                                            *)
ImplementsAtLeastOnce == Abstract!Spec

-----------------------------------------------------------------------------
(* The inductive invariant *)

(* A loop in the middle of a message has one in hand. *)
HoldsMessage ==
  \A r \in Runs : Holding(r) =>
    inHand[r] \in MsgIds /\ inHand[r].offset < Len(Log[inHand[r].part])

(* With one Run no second loop reads from the client or takes the tokens of *)
(* the first.                                                               *)
SingleRun == \A r, s \in Runs : r = s

(* Between messages everything below a position of the client is resolved;  *)
(* with a message in hand everything but that message, and the partition of *)
(* the message may be gone or start again anywhere below it.  A message     *)
(* about to be committed is resolved.                                       *)
Cursor ==
  \A r \in Runs :
    /\ loop[r] \in {"select", "reading"} =>
         \A p \in Partitions : Before(p, position[p]) \subseteq Resolved
    /\ Holding(r) =>
         /\ Before(inHand[r].part, inHand[r].offset) \subseteq Resolved
         /\ \A p \in Partitions :
              Before(p, position[p]) \subseteq Resolved \cup {inHand[r]}
    /\ loop[r] = "commit" => inHand[r] \in Resolved

Over == \A r \in Runs : loop[r] = "stopped"

(* A finished token, and everything a caller does after it took one, comes  *)
(* after the end of the loop; so does every step of the reporter.           *)
Handshake ==
  /\ finished > 0 => Over
  /\ \A c \in Callers : caller[c] \in {"closing", "returned"} => Over
  /\ client = "closed" => Over
  /\ \A r \in Runs : reporter[r] # "none" => loop[r] = "stopped"

(* Where the tokens are: there is an answer exactly when the loop has ended *)
(* and no reporter owes one, the failure of a loop is reported once, and a  *)
(* call of Shutdown that waits has a token on its way, in the hands of the  *)
(* loop or the reporter, or answered.                                       *)
Tokens ==
  /\ \A r \in Runs :
       /\ Answered <=> (loop[r] = "stopped" /\ reporter[r] \in {"none", "done"})
       /\ reporter[r] \in {"none", "reporting"} => listener = 0
       /\ \/ \A c \in Callers : caller[c] # "waiting"
          \/ Answered \/ loop[r] = "stopping" \/ reporter[r] = "finishing"
          \/ started = 1
  /\ \A c \in Callers : caller[c] # "idle" =>
       \E r \in Runs : loop[r] \notin {"idle", "unsubscribed"}

IInv == TypeOK /\ HoldsMessage /\ NoMessageLost /\ Cursor /\ Handshake /\ Tokens

-----------------------------------------------------------------------------
(* Statements of the documentation that the code does not keep *)

(* "Only errors matching RetryableErrors under errors.Is are retried;       *)
(* anything else goes straight to the dead letter topic" (handler.go:27-29).*)
(* The error of a retry is not looked at.                                   *)
OnlyRetryableErrorsRetried ==
  \A r \in Runs :
    At(r, "retry") => ShouldRetry(lastErr[r], ConfigRetry.RetryableErrors)
=============================================================================
