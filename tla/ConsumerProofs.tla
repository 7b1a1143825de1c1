--------------------------- MODULE ConsumerProofs ---------------------------
(***************************************************************************)
(* What TLC checks of Consumer on small instances, proved for any set of    *)
(* partitions, any log, any configuration of the retries, any number of      *)
(* crashes and a group that rebalances whenever it likes.                   *)
(***************************************************************************)
EXTENDS Consumer, TLAPS

(***************************************************************************)
(* Type correctness.  Handle and the dead letter topic are given the        *)
(* message in hand, so the induction needs to know that there is one.       *)
(***************************************************************************)
TypeInv == TypeOK /\ HoldsMessage

LEMMA TypeInit == Init => TypeInv
  BY ConsumerAssumption
     DEF Init, TypeInv, TypeOK, HoldsMessage, Holding, LoopLabels,
         DeadLettered, Errors, Unassigned, ChanCap, NoMsg, MsgIds

LEMMA UnassignedTyped == Unassigned \in [Partitions -> Nat]
  BY DEF Unassigned

(* Run, and the steps of the loop outside processMessage. *)
LEMMA TypeLoop ==
  ASSUME TypeInv, NEW r \in Runs, Run(r) \/ Poll(r) PROVE TypeInv'
<1> USE DEF At, Goto, outcome, channels, reading, retrying, others, TypeInv,
            TypeOK, HoldsMessage, Holding, LoopLabels, DeadLettered, ChanCap
<1>1. CASE Run(r)
  <2>1. /\ loop' \in [Runs -> LoopLabels] /\ ~Holding(r)'
        /\ \A s \in Runs \ {r} : Holding(s)' <=> Holding(s)
    BY <1>1 DEF Run
  <2>2. assigned' \subseteq Partitions /\ position' \in [Partitions -> Nat]
    BY <1>1, UnassignedTyped DEF Run
  <2>3. HoldsMessage'
    BY <1>1, <2>1 DEF Run
  <2> QED
    BY <1>1, <2>1, <2>2, <2>3 DEF Run
<1>2. CASE Select(r)
  <2>1. loop' \in [Runs -> LoopLabels]
    <3>1. loop' \in {[loop EXCEPT ![r] = "stopping"], [loop EXCEPT ![r] = "reading"]}
      BY <1>2 DEF Select
    <3> QED
      BY <3>1
  <2>2. started' \in 0..ChanCap
    <3>1. CASE started > 0
      BY <1>2, <3>1 DEF Select
    <3>2. CASE ~(started > 0)
      BY <1>2, <3>2 DEF Select
    <3> QED
      BY <3>1, <3>2
  <2>3. HoldsMessage'
    BY <1>2 DEF Select
  <2> QED
    BY <1>2, <2>1, <2>2, <2>3 DEF Select
<1>3. CASE LoopFinishes(r)
  BY <1>3 DEF LoopFinishes
<1>4. CASE ReadMessage(r)
  <2>1. PICK p \in assigned :
          /\ position[p] < Len(Log[p])
          /\ inHand' = [inHand EXCEPT
                          ![r] = [part |-> p, offset |-> position[p]]]
          /\ position' = [position EXCEPT ![p] = @ + 1]
    BY <1>4 DEF ReadMessage
  <2>2. p \in Partitions /\ position[p] \in Nat
    OBVIOUS
  <2>3. inHand'[r] \in MsgIds /\ inHand'[r].offset < Len(Log[inHand'[r].part])
    BY <2>1, <2>2 DEF MsgIds
  <2>4. position' \in [Partitions -> Nat]
    BY <2>1, <2>2
  <2>5. HoldsMessage'
    BY <1>4, <2>1, <2>3 DEF ReadMessage
  <2> QED
    BY <1>4, <2>1, <2>3, <2>4, <2>5 DEF ReadMessage
<1>5. CASE ReadTimesOut(r)
  BY <1>5 DEF ReadTimesOut
<1>6. CASE ReadFails(r)
  BY <1>6 DEF ReadFails, LoopFails
<1> QED
  BY <1>1, <1>2, <1>3, <1>4, <1>5, <1>6 DEF Poll

(* The source of a dead letter is the message in hand. *)
LEMMA DeadLetterSource ==
  ASSUME NEW r \in Runs PROVE DeadLetter(r).src = inHand[r]
  BY DEF DeadLetter, DeadLetterOf

LEMMA DeadLetteredGrows ==
  ASSUME NEW r \in Runs, dlt' \in {dlt, dlt \cup {DeadLetter(r)}}
  PROVE  DeadLettered' \in {DeadLettered, DeadLettered \cup {inHand[r]}}
  BY DeadLetterSource DEF DeadLettered

LEMMA DeadLetteredAdds ==
  ASSUME NEW r \in Runs, dlt' = dlt \cup {DeadLetter(r)}
  PROVE  DeadLettered' = DeadLettered \cup {inHand[r]}
  BY DeadLetterSource DEF DeadLettered

(* The steps of processMessage and the commit. *)
LEMMA TypeProcess ==
  ASSUME TypeInv, NEW r \in Runs, Process(r) PROVE TypeInv'
<1> USE DEF At, Goto, outcome, channels, reading, retrying, others, TypeInv,
            TypeOK, HoldsMessage, Holding, LoopLabels
<1>1. CASE ProcessMessage(r)
  BY <1>1 DEF ProcessMessage, DeadLettered
<1>2. CASE HandleSucceeds(r)
  BY <1>2 DEF HandleSucceeds, Retried, Errors, DeadLettered
<1>3. CASE HandleFails(r)
  <2>1. PICK err \in Errors :
          IF ShouldRetry(err, ConfigRetry.RetryableErrors)
            THEN Goto(r, "retry") /\ Retried(r, err, 0)
            ELSE Goto(r, "dispatch") /\ UNCHANGED retrying
    BY <1>3 DEF HandleFails
  <2>2. lastErr' \in [Runs -> Errors] /\ elapsed' \in [Runs -> Nat]
    <3>1. CASE Retried(r, err, 0)
      BY <3>1 DEF Retried
    <3>2. CASE UNCHANGED retrying
      BY <3>2
    <3> QED
      BY <2>1, <3>1, <3>2
  <2>3. loop' \in [Runs -> LoopLabels]
    BY <2>1
  <2>4. HoldsMessage'
    BY <1>3, <2>1 DEF HandleFails
  <2> QED
    BY <1>3, <2>2, <2>3, <2>4 DEF HandleFails, DeadLettered
<1>4. CASE RetryFails(r)
  <2>1. PICK err \in Errors, ticks \in 1..MaxTick :
          LET spent == elapsed[r] + ticks
          IN  IF GivesUp(spent)
                THEN Goto(r, "dispatch") /\ Retried(r, {}, 0)
                ELSE /\ UNCHANGED loop
                     /\ Retried(r, err,
                          IF ConfigRetry.MaxElapsedTime = 0 THEN 0 ELSE spent)
    BY <1>4 DEF RetryFails
  <2>2. elapsed[r] + ticks \in Nat
    BY ConsumerAssumption
  <2>3. elapsed' \in [Runs -> Nat]
    <3>1. \E n \in Nat : elapsed' = [elapsed EXCEPT ![r] = n]
      BY <2>1, <2>2 DEF Retried
    <3> QED
      BY <3>1
  <2>4. lastErr' \in [Runs -> Errors]
    BY <2>1 DEF Retried, Errors
  <2> QED
    BY <1>4, <2>1, <2>3, <2>4 DEF RetryFails, DeadLettered
<1>5. CASE DispatchSucceeds(r)
  BY <1>5, DeadLetteredAdds DEF DispatchSucceeds
<1>6. CASE DispatchFails(r)
  BY <1>6, DeadLetteredGrows DEF DispatchFails, LoopFails
<1>7. CASE CommitMessage(r)
  BY <1>7 DEF CommitMessage, CommitOffset, DeadLettered, MsgIds
<1>8. CASE CommitFails(r)
  <2>1. CommitOffset(inHand[r]) \in [Partitions -> Nat]
    BY <1>8 DEF CommitFails, CommitOffset, MsgIds
  <2> QED
    BY <1>8, <2>1 DEF CommitFails, LoopFails, DeadLettered
<1> QED
  BY <1>1, <1>2, <1>3, <1>4, <1>5, <1>6, <1>7, <1>8 DEF Process

(* The reporter, the callers of Shutdown, the application, a crash. *)
LEMMA TypeReporter ==
  ASSUME TypeInv, NEW r \in Runs, Reporter(r) PROVE TypeInv'
<1> USE DEF ReporterGoto, outcome, reading, retrying, TypeInv,
            TypeOK, HoldsMessage, Holding, DeadLettered, ChanCap
<1>1. CASE ReportError(r)
  BY <1>1 DEF ReportError
<1>2. CASE ReporterSeesShutdown(r)
  BY <1>2 DEF ReporterSeesShutdown
<1>3. CASE ReporterFinishes(r)
  BY <1>3 DEF ReporterFinishes
<1> QED
  BY <1>1, <1>2, <1>3 DEF Reporter

LEMMA TypeShutdown ==
  ASSUME TypeInv, NEW c \in Callers, CallShutdown(c) \/ Shutdown(c)
  PROVE  TypeInv'
<1> USE DEF CallerGoto, outcome, channels, reading, retrying, TypeInv,
            TypeOK, HoldsMessage, Holding, DeadLettered, ChanCap
<1>1. CASE CallShutdown(c)
  BY <1>1 DEF CallShutdown
<1>2. CASE StartShutdown(c)
  BY <1>2 DEF StartShutdown
<1>3. CASE SeeFinished(c)
  BY <1>3 DEF SeeFinished
<1>4. CASE Close(c)
  BY <1>4 DEF Close, Unassigned
<1> QED
  BY <1>1, <1>2, <1>3, <1>4 DEF Shutdown

(* What the group does, whichever member it is that does it. *)
LEMMA PeerDeadLetters ==
  ASSUME NEW m, NEW decoded, dlt' = dlt \cup {DeadLetterOf(m, decoded)}
  PROVE  DeadLettered' = DeadLettered \cup {m}
<1>1. DeadLetterOf(m, decoded).src = m
  BY DEF DeadLetterOf
<1> QED
  BY <1>1 DEF DeadLettered

LEMMA PeerResolvesOne ==
  ASSUME NEW p \in Partitions, PeerResolves(p)
  PROVE  \E o \in 0..(Len(Log[p]) - 1) :
           LET m == [part |-> p, offset |-> o]
           IN  /\ Before(p, o) \subseteq Resolved
               /\ \/ handled' = handled \cup {m} /\ UNCHANGED <<skipped, dlt>>
                  \/ skipped' = skipped \cup {m} /\ UNCHANGED <<handled, dlt>>
                  \/ /\ dlt' = dlt \cup {DeadLetterOf(m, Decodes(Message(m)))}
                     /\ DeadLettered' = DeadLettered \cup {m}
                     /\ UNCHANGED <<handled, skipped>>
  BY PeerDeadLetters DEF PeerResolves

LEMMA TypeGroup ==
  ASSUME TypeInv, NEW p \in Partitions,
         Assign(p) \/ Revoke(p) \/ PeerResolves(p) \/ PeerCommits(p)
  PROVE  TypeInv'
<1> USE DEF outcome, channels, reading, retrying, others, TypeInv, TypeOK,
            HoldsMessage, Holding
<1>1. CASE Assign(p)
  BY <1>1 DEF Assign, DeadLettered
<1>2. CASE Revoke(p)
  BY <1>2 DEF Revoke, DeadLettered
<1>3. CASE PeerResolves(p)
  <2>1. PICK o \in 0..(Len(Log[p]) - 1) :
          LET m == [part |-> p, offset |-> o]
          IN  \/ handled' = handled \cup {m} /\ UNCHANGED <<skipped, dlt>>
              \/ skipped' = skipped \cup {m} /\ UNCHANGED <<handled, dlt>>
              \/ /\ DeadLettered' = DeadLettered \cup {m}
                 /\ UNCHANGED <<handled, skipped>>
    BY <1>3, PeerResolvesOne
  <2>2. [part |-> p, offset |-> o] \in MsgIds
    BY ConsumerAssumption DEF MsgIds
  <2>3. /\ handled' \subseteq MsgIds
        /\ skipped' \subseteq MsgIds
        /\ DeadLettered' \subseteq MsgIds
    BY <2>1, <2>2 DEF DeadLettered
  <2> QED
    BY <1>3, <2>3 DEF PeerResolves
<1>4. CASE PeerCommits(p)
  BY <1>4, ConsumerAssumption DEF PeerCommits, DeadLettered
<1> QED
  BY <1>1, <1>2, <1>3, <1>4

LEMMA TypeListen ==
  ASSUME TypeInv, ListenShutdown PROVE TypeInv'
  BY DEF ListenShutdown, outcome, reading, retrying, others, TypeInv, TypeOK,
         HoldsMessage, Holding, DeadLettered, ChanCap

LEMMA TypeRestart ==
  ASSUME TypeInv, Restart PROVE TypeInv'
  BY ConsumerAssumption
     DEF Restart, outcome, TypeInv, TypeOK, HoldsMessage, Holding,
         DeadLettered, LoopLabels, ChanCap, Errors, Unassigned

LEMMA TypeStutters ==
  ASSUME TypeInv, UNCHANGED vars PROVE TypeInv'
  BY DEF vars, outcome, channels, reading, retrying, others, TypeInv, TypeOK,
         HoldsMessage, Holding, DeadLettered

LEMMA TypeNext ==
  ASSUME TypeInv, [Next]_vars PROVE TypeInv'
  BY TypeLoop, TypeProcess, TypeReporter, TypeShutdown, TypeListen, TypeGroup,
     TypeRestart, TypeStutters DEF Next, Group

(* Every variable keeps its type: no channel holds more than its one token, *)
(* offsets stay natural numbers, and Handle, the dead letter topic and the  *)
(* commit always have a message to work on.                                 *)
THEOREM TypeCorrect == Spec => []TypeOK
<1>1. TypeInv => TypeOK
  BY DEF TypeInv
<1> QED
  BY <1>1, TypeInit, TypeNext, PTL DEF Spec

-----------------------------------------------------------------------------
(***************************************************************************)
(* At least once.  The argument: a position of the client never has more    *)
(* below it than what is resolved and the message in hand (Cursor), so the  *)
(* message that is read next, and every offset that is committed, comes     *)
(* behind resolved messages only.  The positions may be lost, or set back,  *)
(* at any time; they are never set past the offset of the group.            *)
(***************************************************************************)

LEMMA BeforeNext ==
  ASSUME NEW p, NEW n \in Nat
  PROVE  Before(p, n + 1) = Before(p, n) \cup {[part |-> p, offset |-> n]}
  BY DEF Before

LEMMA BeforeNothing == ASSUME NEW p PROVE Before(p, 0) = {}
  BY DEF Before

(* No step takes back that a message was handled, skipped or dead-lettered. *)
LEMMA ResolvedGrows ==
  ASSUME [Next]_vars PROVE Resolved \subseteq Resolved'
<1> USE DEF Resolved, DeadLettered, outcome
<1>1. ASSUME NEW r \in Runs, Run(r) \/ Poll(r) \/ Reporter(r)
      PROVE  Resolved \subseteq Resolved'
  BY <1>1 DEF Run, Poll, Select, LoopFinishes, ReadMessage, ReadTimesOut,
              ReadFails, Reporter, ReportError, ReporterSeesShutdown,
              ReporterFinishes
<1>2. ASSUME NEW r \in Runs, Process(r)
      PROVE  Resolved \subseteq Resolved'
  BY <1>2 DEF Process, ProcessMessage, HandleSucceeds, HandleFails, RetryFails,
              DispatchSucceeds, DispatchFails, CommitMessage, CommitFails
<1>3. ASSUME NEW c \in Callers, CallShutdown(c) \/ Shutdown(c)
      PROVE  Resolved \subseteq Resolved'
  BY <1>3 DEF CallShutdown, Shutdown, StartShutdown, SeeFinished, Close
<1>4. ASSUME NEW p \in Partitions,
             Assign(p) \/ Revoke(p) \/ PeerResolves(p) \/ PeerCommits(p)
      PROVE  Resolved \subseteq Resolved'
  BY <1>4, PeerResolvesOne DEF Assign, Revoke, PeerCommits
<1>5. ASSUME ListenShutdown \/ Restart \/ UNCHANGED vars
      PROVE  Resolved \subseteq Resolved'
  BY <1>5 DEF ListenShutdown, Restart, vars
<1> QED
  BY <1>1, <1>2, <1>3, <1>4, <1>5 DEF Next, Group

Delivery == NoMessageLost /\ Cursor

(* A step that leaves the loops alone, and puts positions and offsets only  *)
(* where everything below is resolved, keeps both.                          *)
LEMMA DeliveryElsewhere ==
  ASSUME Delivery, Resolved \subseteq Resolved',
         UNCHANGED <<inHand, loop>>,
         \A p \in Partitions :
           \/ committed'[p] = committed[p]
           \/ Before(p, committed'[p]) \subseteq Resolved',
         \A p \in Partitions :
           \/ position'[p] = position[p]
           \/ Before(p, position'[p]) \subseteq Resolved'
  PROVE  Delivery'
<1>1. \A p \in Partitions : Before(p, committed'[p]) \subseteq Resolved'
  BY DEF Delivery, NoMessageLost
<1>2. NoMessageLost'
  BY <1>1 DEF NoMessageLost, Before
<1>3. ASSUME NEW S, NEW p \in Partitions,
             Before(p, position[p]) \subseteq Resolved \cup S
      PROVE  Before(p, position'[p]) \subseteq Resolved' \cup S
  BY <1>3
<1>4. ASSUME NEW r \in Runs, loop[r] \in {"select", "reading"},
             NEW p \in Partitions
      PROVE  Before(p, position'[p]) \subseteq Resolved'
  BY <1>4 DEF Delivery, Cursor
<1>5. ASSUME NEW r \in Runs, Holding(r)
      PROVE  /\ Before(inHand[r].part, inHand[r].offset) \subseteq Resolved'
             /\ \A p \in Partitions :
                  Before(p, position'[p]) \subseteq Resolved' \cup {inHand[r]}
             /\ loop[r] = "commit" => inHand[r] \in Resolved'
  BY <1>3, <1>5 DEF Delivery, Cursor
<1>6. Cursor'
  BY <1>4, <1>5 DEF Cursor, Holding, Before
<1> QED
  BY <1>2, <1>6 DEF Delivery

LEMMA DeliveryLoop ==
  ASSUME SingleRun, TypeInv, Delivery, Resolved \subseteq Resolved',
         NEW r \in Runs, Run(r) \/ Poll(r)
  PROVE  Delivery'
<1> USE DEF Delivery, At, Goto, outcome, channels, reading, retrying, others
<1>1. committed' = committed
  BY DEF Run, Poll, Select, LoopFinishes, ReadMessage, ReadTimesOut, ReadFails
<1>2. NoMessageLost'
  BY <1>1 DEF NoMessageLost, Before
<1>3. \A s \in Runs : s = r
  BY DEF SingleRun
<1> USE DEF TypeInv, TypeOK, Cursor, Holding
<1>4. CASE Run(r)
  BY <1>2, <1>3, <1>4, BeforeNothing DEF Run, Unassigned
<1>5. CASE Select(r)
  BY <1>2, <1>3, <1>5 DEF Select
<1>6. CASE LoopFinishes(r)
  BY <1>2, <1>3, <1>6 DEF LoopFinishes
<1>7. CASE ReadMessage(r)
  <2>1. PICK p \in assigned :
          /\ inHand' = [inHand EXCEPT
                          ![r] = [part |-> p, offset |-> position[p]]]
          /\ position' = [position EXCEPT ![p] = @ + 1]
    BY <1>7 DEF ReadMessage
  <2>2. p \in Partitions /\ position[p] \in Nat
    OBVIOUS
  <2>3. inHand'[r] = [part |-> p, offset |-> position[p]]
    BY <2>1
  <2>4. /\ loop[r] = "reading"
        /\ loop' = [loop EXCEPT ![r] = "received"]
    BY <1>7 DEF ReadMessage
  <2>5. \A q \in Partitions : Before(q, position[q]) \subseteq Resolved
    BY <2>4
  <2>6. Before(p, position'[p]) = Before(p, position[p]) \cup {inHand'[r]}
    BY <2>1, <2>2, <2>3, BeforeNext
  <2>7. ASSUME NEW q \in Partitions
        PROVE  Before(q, position'[q]) \subseteq Resolved' \cup {inHand'[r]}
    BY <2>1, <2>2, <2>5, <2>6
  <2>8. Before(inHand'[r].part, inHand'[r].offset) \subseteq Resolved'
    BY <2>2, <2>3, <2>5
  <2>9. Cursor'
    BY <1>3, <2>4, <2>7, <2>8 DEF Before
  <2> QED
    BY <1>2, <2>9
<1>8. CASE ReadTimesOut(r)
  BY <1>2, <1>3, <1>8 DEF ReadTimesOut
<1>9. CASE ReadFails(r)
  BY <1>2, <1>3, <1>9 DEF ReadFails, LoopFails
<1> QED
  BY <1>4, <1>5, <1>6, <1>7, <1>8, <1>9 DEF Poll

(* Committing a message that is resolved, like the ones before it. *)
LEMMA CommitKeeps ==
  ASSUME TypeInv, Delivery, NEW r \in Runs, At(r, "commit"),
         Resolved \subseteq Resolved',
         committed' \in {committed, CommitOffset(inHand[r])}
  PROVE  NoMessageLost'
<1> DEFINE m == inHand[r]
<1>1. /\ m \in MsgIds
      /\ Before(m.part, m.offset) \subseteq Resolved
      /\ m \in Resolved
      /\ m = [part |-> m.part, offset |-> m.offset]
  BY DEF TypeInv, HoldsMessage, Holding, Delivery, Cursor, At, MsgIds
<1>2. ASSUME NEW p \in Partitions, committed'[p] = committed[p]
      PROVE  Before(p, committed'[p]) \subseteq Resolved'
  BY <1>2 DEF Delivery, NoMessageLost
<1>3. ASSUME NEW p \in Partitions, committed'[p] # committed[p]
      PROVE  Before(p, committed'[p]) \subseteq Resolved'
  <2>1. p = m.part /\ committed'[p] = m.offset + 1
    BY <1>3, <1>1 DEF CommitOffset, TypeInv, TypeOK
  <2>2. Before(p, committed'[p]) = Before(p, m.offset) \cup {m}
    BY <2>1, <1>1, BeforeNext DEF MsgIds
  <2> QED
    BY <2>1, <2>2, <1>1
<1> QED
  BY <1>2, <1>3 DEF NoMessageLost, Before

LEMMA DeliveryProcess ==
  ASSUME SingleRun, TypeInv, Delivery, Resolved \subseteq Resolved',
         NEW r \in Runs, Process(r)
  PROVE  Delivery'
<1> USE DEF At, Goto, outcome, channels, reading, retrying, others
<1>1. ASSUME committed' = committed PROVE NoMessageLost'
  BY <1>1 DEF Delivery, NoMessageLost, Before
<1>2. \A s \in Runs : s = r
  BY DEF SingleRun
<1> USE <1>2 DEF Delivery, TypeInv, TypeOK, HoldsMessage, Cursor, Holding, Before
<1>3. CASE ProcessMessage(r)
  BY <1>1, <1>3 DEF ProcessMessage, Resolved
<1>4. CASE HandleSucceeds(r)
  BY <1>1, <1>4 DEF HandleSucceeds, Resolved
<1>5. CASE HandleFails(r)
  BY <1>1, <1>5 DEF HandleFails
<1>6. CASE RetryFails(r)
  BY <1>1, <1>6 DEF RetryFails
<1>7. CASE DispatchSucceeds(r)
  BY <1>1, <1>7, DeadLetteredAdds DEF DispatchSucceeds, Resolved
<1>8. CASE DispatchFails(r)
  BY <1>1, <1>8 DEF DispatchFails, LoopFails
<1>9. CASE CommitMessage(r)
  BY <1>9, CommitKeeps DEF CommitMessage
<1>10. CASE CommitFails(r)
  BY <1>10, CommitKeeps DEF CommitFails, LoopFails
<1> QED
  BY <1>3, <1>4, <1>5, <1>6, <1>7, <1>8, <1>9, <1>10 DEF Process

LEMMA DeliveryGroup ==
  ASSUME TypeInv, Delivery, Resolved \subseteq Resolved', NEW p \in Partitions,
         Assign(p) \/ Revoke(p) \/ PeerResolves(p) \/ PeerCommits(p)
  PROVE  Delivery'
<1> USE DEF reading, TypeInv, TypeOK
<1>1. CASE Assign(p)
  <2>1. Before(p, committed[p]) \subseteq Resolved'
    BY DEF Delivery, NoMessageLost
  <2> QED
    BY <1>1, <2>1, DeliveryElsewhere DEF Assign
<1>2. CASE Revoke(p)
  BY <1>2, BeforeNothing, DeliveryElsewhere DEF Revoke
<1>3. CASE PeerResolves(p)
  BY <1>3, DeliveryElsewhere DEF PeerResolves
<1>4. CASE PeerCommits(p)
  BY <1>4, DeliveryElsewhere DEF PeerCommits
<1> QED
  BY <1>1, <1>2, <1>3, <1>4

LEMMA DeliveryNext ==
  ASSUME SingleRun, TypeInv, Delivery, [Next]_vars PROVE Delivery'
<1> USE ResolvedGrows
<1>1. ASSUME NEW r \in Runs, Run(r) \/ Poll(r) PROVE Delivery'
  BY <1>1, DeliveryLoop DEF Next
<1>2. ASSUME NEW r \in Runs, Process(r) PROVE Delivery'
  BY <1>2, DeliveryProcess DEF Next
<1>3. ASSUME NEW r \in Runs, Reporter(r) PROVE Delivery'
  BY <1>3, DeliveryElsewhere
     DEF Next, Reporter, ReportError, ReporterSeesShutdown, ReporterFinishes,
         reading
<1>4. ASSUME NEW c \in Callers, CallShutdown(c) \/ Shutdown(c) PROVE Delivery'
  <2>1. CASE Close(c)
    BY <2>1, BeforeNothing, DeliveryElsewhere DEF Close, Unassigned
  <2>2. CASE ~Close(c)
    BY <1>4, <2>2, DeliveryElsewhere
       DEF CallShutdown, Shutdown, StartShutdown, SeeFinished, reading
  <2> QED
    BY <2>1, <2>2
<1>5. CASE ListenShutdown
  BY <1>5, DeliveryElsewhere DEF Next, ListenShutdown, reading
<1>6. ASSUME NEW p \in Partitions,
             Assign(p) \/ Revoke(p) \/ PeerResolves(p) \/ PeerCommits(p)
      PROVE  Delivery'
  BY <1>6, DeliveryGroup
<1>7. CASE Restart
  BY <1>7 DEF Next, Restart, Delivery, NoMessageLost, Cursor, Holding, Before
<1>8. CASE UNCHANGED vars
  BY <1>8, DeliveryElsewhere DEF vars, reading
<1> QED
  BY <1>1, <1>2, <1>3, <1>4, <1>5, <1>6, <1>7, <1>8 DEF Next, Group

LEMMA DeliveryInit == Init => Delivery
  BY BeforeNothing DEF Init, Delivery, NoMessageLost, Cursor, Holding

(* At least once: whatever the handler, the dead letter topic, the commit   *)
(* and the rest of the group do, and wherever the process crashes or loses  *)
(* a partition, the offset of the group never passes a message that was not *)
(* handled, skipped or dead-lettered.                                       *)
THEOREM NothingLost == ASSUME SingleRun PROVE Spec => []NoMessageLost
<1>1. Init => TypeInv /\ Delivery
  BY TypeInit, DeliveryInit
<1>2. TypeInv /\ Delivery /\ [Next]_vars => (TypeInv /\ Delivery)'
  BY TypeNext, DeliveryNext
<1>3. Delivery => NoMessageLost
  BY DEF Delivery
<1> QED
  BY <1>1, <1>2, <1>3, PTL DEF Spec

(* A failed message is never overtaken: while a message is being processed, *)
(* every earlier message of its partition is resolved.                      *)
THEOREM ProcessedInOrder == ASSUME SingleRun PROVE Spec => []InOrder
<1>1. Init => TypeInv /\ Delivery
  BY TypeInit, DeliveryInit
<1>2. TypeInv /\ Delivery /\ [Next]_vars => (TypeInv /\ Delivery)'
  BY TypeNext, DeliveryNext
<1>3. Delivery => InOrder
  BY DEF Delivery, Cursor, InOrder
<1> QED
  BY <1>1, <1>2, <1>3, PTL DEF Spec

-----------------------------------------------------------------------------
(***************************************************************************)
(* The shutdown protocol.  One token goes out on shutdownStarted, one comes *)
(* back on shutdownFinished, from the loop as it ends or from the reporter, *)
(* which only exists once the loop has ended (Handshake).                   *)
(***************************************************************************)

LEMMA HandshakeLoop ==
  ASSUME SingleRun, TypeInv, Handshake, NEW r \in Runs,
         Run(r) \/ Poll(r) \/ Process(r) \/ Reporter(r)
  PROVE  Handshake'
<1> USE DEF At, Goto, ReporterGoto, channels, others, TypeInv, TypeOK,
            Handshake, Over, SingleRun
<1>1. CASE Run(r)
  BY <1>1 DEF Run
<1>2. CASE Poll(r)
  BY <1>2 DEF Poll, Select, LoopFinishes, ReadMessage, ReadTimesOut, ReadFails,
              LoopFails
<1>3. CASE Process(r)
  BY <1>3 DEF Process, ProcessMessage, HandleSucceeds, HandleFails, RetryFails,
              DispatchSucceeds, DispatchFails, CommitMessage, CommitFails,
              LoopFails
<1>4. CASE Reporter(r)
  BY <1>4 DEF Reporter, ReportError, ReporterSeesShutdown, ReporterFinishes
<1> QED
  BY <1>1, <1>2, <1>3, <1>4

LEMMA HandshakeShutdown ==
  ASSUME TypeInv, Handshake, NEW c \in Callers, CallShutdown(c) \/ Shutdown(c)
  PROVE  Handshake'
<1> USE DEF CallerGoto, TypeInv, TypeOK, Handshake, Over
<1>1. CASE CallShutdown(c)
  BY <1>1 DEF CallShutdown, channels
<1>2. CASE StartShutdown(c)
  BY <1>2 DEF StartShutdown
<1>3. CASE SeeFinished(c)
  BY <1>3 DEF SeeFinished
<1>4. CASE Close(c)
  BY <1>4 DEF Close, channels
<1> QED
  BY <1>1, <1>2, <1>3, <1>4 DEF Shutdown

LEMMA HandshakeNext ==
  ASSUME SingleRun, TypeInv, Handshake, [Next]_vars PROVE Handshake'
<1>1. ASSUME NEW p \in Partitions,
             Assign(p) \/ Revoke(p) \/ PeerResolves(p) \/ PeerCommits(p)
      PROVE  Handshake'
  BY <1>1 DEF Assign, Revoke, PeerResolves, PeerCommits, channels, others,
              Handshake, Over
<1>2. CASE ListenShutdown \/ UNCHANGED vars
  BY <1>2 DEF ListenShutdown, vars, channels, others, Handshake, Over
<1>3. CASE Restart
  BY <1>3 DEF Restart, Handshake, Over
<1> QED
  BY <1>1, <1>2, <1>3, HandshakeLoop, HandshakeShutdown DEF Next, Group

(* Shutdown never closes the Kafka client under a loop that still uses it,  *)
(* however often and from wherever it is called.                            *)
THEOREM ClosedAfterDrain == ASSUME SingleRun PROVE Spec => []DrainedBeforeClose
<1>1. Init => TypeInv /\ Handshake
  BY TypeInit DEF Init, Handshake
<1>2. TypeInv /\ Handshake /\ [Next]_vars => (TypeInv /\ Handshake)'
  BY TypeNext, HandshakeNext
<1>3. Handshake => DrainedBeforeClose
  BY DEF Handshake, Over, DrainedBeforeClose
<1> QED
  BY <1>1, <1>2, <1>3, PTL DEF Spec

-----------------------------------------------------------------------------
(***************************************************************************)
(* The protocol of the three channels does not lock up.  Every token is     *)
(* accounted for (Tokens): the loop, or the reporter that took its place,   *)
(* owes one answer, and it is given once.                                   *)
(***************************************************************************)

Live == LoopLabels \ {"idle", "unsubscribed", "stopping", "stopped"}

(* The tokens look at the channels, at the callers, and of a live loop only *)
(* at that it lives.                                                        *)
LEMMA TokensLive ==
  ASSUME SingleRun, TypeInv, Tokens, NEW r \in Runs, loop[r] \in Live,
         loop'[r] \in Live, UNCHANGED <<channels, reporter, caller>>
  PROVE  Tokens'
<1>1. \A s \in Runs : s = r
  BY DEF SingleRun
<1>2. Answered' = Answered
  BY DEF Answered, channels
<1> QED
  BY <1>1, <1>2 DEF Tokens, channels, Live

(* A live loop that fails leaves the answer to its reporter. *)
LEMMA TokensFail ==
  ASSUME SingleRun, TypeInv, Tokens, Handshake, NEW r \in Runs,
         loop[r] \in Live, LoopFails(r)
  PROVE  Tokens'
<1>1. \A s \in Runs : s = r
  BY DEF SingleRun
<1>2. /\ loop'[r] = "stopped" /\ reporter'[r] = "reporting"
      /\ UNCHANGED <<channels, caller>>
  BY DEF LoopFails, Goto, TypeInv, TypeOK
<1>3. Answered' = Answered
  BY <1>2 DEF Answered, channels
<1>4. reporter[r] = "none"
  BY DEF Handshake, Live
<1> QED
  BY <1>1, <1>2, <1>3, <1>4 DEF Tokens, channels, Live

LEMMA TokensLoop ==
  ASSUME SingleRun, TypeInv, Tokens, Handshake, NEW r \in Runs,
         Run(r) \/ Poll(r) \/ Process(r)
  PROVE  Tokens'
<1>1. \A s \in Runs : s = r
  BY DEF SingleRun
<1>2. CASE Run(r)
  <2>1. /\ loop[r] = "idle" /\ loop'[r] \in {"select", "unsubscribed"}
        /\ UNCHANGED <<started, finished, listener, reporter, caller>>
    BY <1>2 DEF Run, At, Goto, channels, others, TypeInv, TypeOK
  <2>2. Answered' = Answered
    BY <2>1 DEF Answered
  <2> QED
    BY <1>1, <2>1, <2>2 DEF Tokens
<1>3. CASE Select(r)
  <2>1. /\ loop[r] = "select" /\ reporter[r] = "none"
        /\ UNCHANGED <<finished, listener, reporter, caller>>
    BY <1>3 DEF Select, At, others, Handshake
  <2>2. Answered' = Answered
    BY <2>1 DEF Answered
  <2>3. CASE loop' = [loop EXCEPT ![r] = "stopping"]
    <3>1. loop'[r] = "stopping"
      BY <2>3 DEF TypeInv, TypeOK
    <3> QED
      BY <1>1, <2>1, <2>2, <3>1 DEF Tokens
  <2>4. CASE loop' = [loop EXCEPT ![r] = "reading"] /\ UNCHANGED started
    <3>1. loop'[r] = "reading"
      BY <2>4 DEF TypeInv, TypeOK
    <3> QED
      BY <1>1, <2>1, <2>2, <2>4, <3>1 DEF Tokens
  <2> QED
    BY <1>3, <2>3, <2>4 DEF Select, Goto
<1>4. CASE LoopFinishes(r)
  <2>1. /\ loop[r] = "stopping" /\ loop'[r] = "stopped" /\ reporter[r] = "none"
        /\ finished' = finished + 1
        /\ UNCHANGED <<started, listener, reporter, caller>>
    BY <1>4 DEF LoopFinishes, At, Goto, others, Handshake, TypeInv, TypeOK
  <2>2. Answered'
    BY <2>1 DEF Answered, TypeInv, TypeOK, ChanCap
  <2> QED
    BY <1>1, <2>1, <2>2 DEF Tokens
<1>5. CASE ReadMessage(r) \/ ReadTimesOut(r)
  <2>1. /\ loop[r] \in Live /\ loop'[r] \in Live
        /\ UNCHANGED <<channels, reporter, caller>>
    BY <1>5 DEF ReadMessage, ReadTimesOut, At, Goto, others, Live, LoopLabels,
                TypeInv, TypeOK
  <2> QED
    BY <2>1, TokensLive
<1>6. CASE ReadFails(r) \/ DispatchFails(r) \/ CommitFails(r)
  <2>1. loop[r] \in Live /\ LoopFails(r)
    BY <1>6 DEF ReadFails, DispatchFails, CommitFails, At, Live, LoopLabels
  <2> QED
    BY <2>1, TokensFail
<1>7. CASE \/ ProcessMessage(r) \/ HandleSucceeds(r) \/ HandleFails(r)
           \/ RetryFails(r) \/ DispatchSucceeds(r) \/ CommitMessage(r)
  <2>1. /\ loop[r] \in Live /\ loop'[r] \in Live
        /\ UNCHANGED <<channels, reporter, caller>>
    BY <1>7 DEF ProcessMessage, HandleSucceeds, HandleFails, RetryFails,
                DispatchSucceeds, CommitMessage, At, Goto, others, Live,
                LoopLabels, TypeInv, TypeOK
  <2> QED
    BY <2>1, TokensLive
<1> QED
  BY <1>2, <1>3, <1>4, <1>5, <1>6, <1>7 DEF Poll, Process

LEMMA TokensReporter ==
  ASSUME SingleRun, TypeInv, Tokens, Handshake, NEW r \in Runs, Reporter(r)
  PROVE  Tokens'
<1>1. /\ \A s \in Runs : s = r
      /\ loop[r] = "stopped" /\ UNCHANGED <<loop, caller>>
  BY DEF SingleRun, Reporter, ReportError, ReporterSeesShutdown,
         ReporterFinishes, Handshake
<1>2. CASE ReportError(r)
  <2>1. /\ reporter[r] = "reporting" /\ reporter'[r] = "waiting"
        /\ UNCHANGED <<started, finished>>
    BY <1>2 DEF ReportError, ReporterGoto, TypeInv, TypeOK
  <2>2. Answered' = Answered
    BY <1>1, <2>1 DEF Answered
  <2> QED
    BY <1>1, <2>1, <2>2 DEF Tokens
<1>3. CASE ReporterSeesShutdown(r)
  <2>1. /\ reporter[r] = "waiting" /\ reporter'[r] = "finishing"
        /\ UNCHANGED finished
    BY <1>3 DEF ReporterSeesShutdown, ReporterGoto, TypeInv, TypeOK
  <2>2. Answered' = Answered
    BY <1>1, <2>1 DEF Answered
  <2> QED
    BY <1>1, <2>1, <2>2 DEF Tokens
<1>4. CASE ReporterFinishes(r)
  <2>1. reporter'[r] = "done" /\ finished' = finished + 1
    BY <1>4 DEF ReporterFinishes, ReporterGoto, TypeInv, TypeOK
  <2>2. Answered'
    BY <2>1 DEF Answered, TypeInv, TypeOK, ChanCap
  <2> QED
    BY <1>1, <2>1, <2>2 DEF Tokens
<1> QED
  BY <1>2, <1>3, <1>4 DEF Reporter

LEMMA TokensShutdown ==
  ASSUME SingleRun, TypeInv, Tokens,
         NEW c \in Callers, CallShutdown(c) \/ Shutdown(c)
  PROVE  Tokens'
<1>1. \A r, s \in Runs : s = r
  BY DEF SingleRun
<1>2. CASE CallShutdown(c)
  <2>1. /\ caller[c] = "idle" /\ caller' = [caller EXCEPT ![c] = "starting"]
        /\ UNCHANGED <<started, finished, listener, loop, reporter>>
        /\ \E r \in Runs : loop[r] \notin {"idle", "unsubscribed"}
    BY <1>2 DEF CallShutdown, CallerGoto, channels
  <2>2. \A d \in Callers : caller'[d] = IF d = c THEN "starting" ELSE caller[d]
    BY <2>1 DEF TypeInv, TypeOK
  <2>3. Answered' <=> Answered
    BY <2>1, <2>2 DEF Answered
  <2> QED
    BY <1>1, <2>1, <2>2, <2>3 DEF Tokens
<1>3. CASE StartShutdown(c)
  <2>1. /\ caller[c] = "starting" /\ caller' = [caller EXCEPT ![c] = "waiting"]
        /\ UNCHANGED <<finished, listener, loop, reporter>>
        /\ started' = 1
    BY <1>3 DEF StartShutdown, CallerGoto, ChanCap, TypeInv, TypeOK
  <2>2. \A d \in Callers : caller'[d] = IF d = c THEN "waiting" ELSE caller[d]
    BY <2>1 DEF TypeInv, TypeOK
  <2>3. Answered' <=> Answered
    BY <2>1, <2>2 DEF Answered
  <2> QED
    BY <1>1, <2>1, <2>2, <2>3 DEF Tokens
<1>4. CASE SeeFinished(c)
  <2>1. /\ caller[c] = "waiting" /\ caller'[c] = "closing" /\ finished > 0
        /\ UNCHANGED <<started, listener, loop, reporter>>
    BY <1>4 DEF SeeFinished, CallerGoto, TypeInv, TypeOK
  <2>2. Answered /\ Answered'
    BY <2>1 DEF Answered
  <2> QED
    BY <2>1, <2>2 DEF Tokens
<1>5. CASE Close(c)
  <2>1. /\ caller[c] = "closing" /\ caller'[c] = "returned"
        /\ UNCHANGED <<started, listener, loop, reporter>>
    BY <1>5 DEF Close, CallerGoto, channels, TypeInv, TypeOK
  <2>2. Answered /\ Answered'
    BY <2>1 DEF Answered
  <2> QED
    BY <2>1, <2>2 DEF Tokens
<1> QED
  BY <1>2, <1>3, <1>4, <1>5 DEF Shutdown

LEMMA TokensNext ==
  ASSUME SingleRun, TypeInv, Handshake, Tokens, [Next]_vars PROVE Tokens'
<1>1. ASSUME NEW p \in Partitions,
             Assign(p) \/ Revoke(p) \/ PeerResolves(p) \/ PeerCommits(p)
      PROVE  Tokens'
  BY <1>1 DEF Assign, Revoke, PeerResolves, PeerCommits, channels, others,
              Tokens, Answered
<1>2. CASE UNCHANGED vars
  BY <1>2 DEF vars, channels, others, Tokens, Answered
<1>3. CASE ListenShutdown
  <2>1. /\ listener \in Nat /\ listener > 0
        /\ UNCHANGED <<started, finished, loop, reporter, caller>>
    BY <1>3 DEF ListenShutdown, others, TypeInv, TypeOK, ChanCap
  <2>2. Answered' <=> Answered
    BY <2>1 DEF Answered
  <2>3. \A r \in Runs : reporter[r] \notin {"none", "reporting"}
    BY <2>1 DEF Tokens
  <2> QED
    BY <2>1, <2>2, <2>3 DEF Tokens
<1>4. CASE Restart
  <2>1. /\ \A r \in Runs : loop'[r] = "idle"
        /\ \A c \in Callers : caller'[c] = "idle"
        /\ finished' = 0 /\ listener' = 0
    BY <1>4 DEF Restart
  <2>2. ~Answered'
    BY <2>1 DEF Answered
  <2> QED
    BY <2>1, <2>2 DEF Tokens
<1> QED
  BY <1>1, <1>2, <1>3, <1>4, TokensLoop, TokensReporter, TokensShutdown
     DEF Next, Group

LEMMA TokensInit == Init => Tokens
<1> SUFFICES ASSUME Init PROVE Tokens
  OBVIOUS
<1>1. ~Answered
  BY DEF Init, Answered
<1> QED
  BY <1>1 DEF Init, Tokens

(* Whoever waits in Shutdown without an answer, the goroutine that owes it  *)
(* can go on: no order of failures, signals and second calls loses a token  *)
(* or fills a channel nobody reads.  For any number of callers, with        *)
(* ListenShutdown read or not.                                              *)
THEOREM ShutdownNeverLocks == ASSUME SingleRun PROVE Spec => []ShutdownProceeds
<1>1. Init => TypeInv /\ Handshake /\ Tokens
  BY TypeInit, TokensInit DEF Init, Handshake
<1>2. TypeInv /\ Handshake /\ Tokens /\ [Next]_vars
        => (TypeInv /\ Handshake /\ Tokens)'
  BY TypeNext, HandshakeNext, TokensNext
<1>3. ASSUME TypeInv, Handshake, Tokens PROVE ShutdownProceeds
  <2> SUFFICES ASSUME NEW c \in Callers, caller[c] = "waiting", ~Answered
               PROVE  \E r \in Runs : CanGoOn(r)
    BY DEF ShutdownProceeds
  <2>1. finished = 0
    BY <1>3 DEF Answered, TypeInv, TypeOK, ChanCap
  <2>2. PICK r \in Runs : loop[r] \notin {"idle", "unsubscribed"}
    BY <1>3 DEF Tokens
  <2>3. /\ loop[r] = "stopped" => reporter[r] \notin {"none", "done"}
        /\ reporter[r] = "reporting" => listener = 0
        /\ loop[r] = "stopping" \/ reporter[r] = "finishing" \/ started = 1
    BY <1>3 DEF Tokens
  <2>4. /\ reporter[r] \in {"none", "reporting", "waiting", "finishing", "done"}
        /\ reporter[r] # "none" => loop[r] = "stopped"
    BY <1>3 DEF TypeInv, TypeOK, Handshake
  <2>5. CanGoOn(r)
    BY <2>1, <2>2, <2>3, <2>4 DEF CanGoOn, ChanCap
  <2> QED
    BY <2>5
<1> QED
  BY <1>1, <1>2, <1>3, PTL DEF Spec

-----------------------------------------------------------------------------
(***************************************************************************)
(* The consumer implements AtLeastOnce: handling, skipping or dead-lettering*)
(* a message is Resolve, a commit is Commit, whichever member does it;      *)
(* everything else, a crash, a failed commit and a rebalancing included, is *)
(* a stutter or one of the two.                                             *)
(***************************************************************************)

LEMMA ResolvedBelow ==
  ASSUME NEW p, NEW n \in Nat, Before(p, n) \subseteq Resolved
  PROVE  Abstract!ResolvedUpTo(p, n)
  BY DEF Before, Abstract!ResolvedUpTo, Abstract!Message

(* Any member resolves a message whose predecessors are resolved. *)
LEMMA ResolveOne ==
  ASSUME NEW p \in Partitions, NEW o \in 0..(Len(Log[p]) - 1),
         Before(p, o) \subseteq Resolved,
         Resolved' \in {Resolved, Resolved \cup {[part |-> p, offset |-> o]}},
         committed' = committed
  PROVE  [Abstract!Step]_(Abstract!vars)
<1>1. CASE Resolved' = Resolved
  BY <1>1 DEF Abstract!vars
<1>2. CASE Resolved' = Resolved \cup {[part |-> p, offset |-> o]}
  <2>1. Abstract!ResolvedUpTo(p, o)
    BY ConsumerAssumption, ResolvedBelow
  <2>2. Abstract!Resolve(p)
    BY <1>2, <2>1 DEF Abstract!Resolve, Abstract!Message
  <2> QED
    BY <2>2 DEF Abstract!Step
<1> QED
  BY <1>1, <1>2

(* Any member commits an offset below which everything is resolved. *)
LEMMA CommitOne ==
  ASSUME NEW p \in Partitions, NEW o \in 1..Len(Log[p]),
         Before(p, o) \subseteq Resolved,
         Resolved' = Resolved,
         committed' = [committed EXCEPT ![p] = o]
  PROVE  [Abstract!Step]_(Abstract!vars)
<1>1. Abstract!ResolvedUpTo(p, o)
  BY ConsumerAssumption, ResolvedBelow
<1>2. Abstract!Commit(p)
  BY <1>1 DEF Abstract!Commit
<1> QED
  BY <1>2 DEF Abstract!Step

LEMMA ResolveStep ==
  ASSUME TypeInv, Delivery, NEW r \in Runs, Holding(r),
         Resolved' \in {Resolved, Resolved \cup {inHand[r]}},
         committed' = committed
  PROVE  [Abstract!Step]_(Abstract!vars)
<1> DEFINE p == inHand[r].part
           o == inHand[r].offset
<1>1. /\ p \in Partitions
      /\ inHand[r] = [part |-> p, offset |-> o]
      /\ o \in Nat /\ o < Len(Log[p])
  BY DEF TypeInv, HoldsMessage, MsgIds
<1>2. Len(Log[p]) \in Nat
  BY <1>1, ConsumerAssumption
<1>3. o \in 0..(Len(Log[p]) - 1)
  BY <1>1, <1>2
<1>4. Before(p, o) \subseteq Resolved
  BY DEF Delivery, Cursor
<1> QED
  BY <1>1, <1>3, <1>4, ResolveOne

LEMMA CommitStep ==
  ASSUME TypeInv, Delivery, NEW r \in Runs, At(r, "commit"),
         Resolved' = Resolved,
         committed' \in {committed, CommitOffset(inHand[r])}
  PROVE  [Abstract!Step]_(Abstract!vars)
<1> DEFINE p == inHand[r].part
           o == inHand[r].offset
<1>1. /\ p \in Partitions
      /\ inHand[r] = [part |-> p, offset |-> o]
      /\ o \in Nat /\ o < Len(Log[p])
  BY DEF TypeInv, HoldsMessage, MsgIds, Holding, At
<1>2. Len(Log[p]) \in Nat
  BY <1>1, ConsumerAssumption
<1>3. o + 1 \in 1..Len(Log[p])
  BY <1>1, <1>2
<1>4. Before(p, o + 1) \subseteq Resolved
  BY <1>1, BeforeNext DEF Delivery, Cursor, Holding, At
<1>5. CASE committed' = committed
  BY <1>5 DEF Abstract!vars
<1>6. CASE committed' = CommitOffset(inHand[r])
  BY <1>1, <1>3, <1>4, <1>6, CommitOne DEF CommitOffset
<1> QED
  BY <1>5, <1>6

LEMMA PeerStep ==
  ASSUME NEW p \in Partitions, PeerResolves(p) \/ PeerCommits(p)
  PROVE  [Abstract!Step]_(Abstract!vars)
<1>1. CASE PeerResolves(p)
  <2>1. PICK o \in 0..(Len(Log[p]) - 1) :
          LET m == [part |-> p, offset |-> o]
          IN  /\ Before(p, o) \subseteq Resolved
              /\ \/ handled' = handled \cup {m} /\ UNCHANGED <<skipped, dlt>>
                 \/ skipped' = skipped \cup {m} /\ UNCHANGED <<handled, dlt>>
                 \/ /\ DeadLettered' = DeadLettered \cup {m}
                    /\ UNCHANGED <<handled, skipped>>
    BY <1>1, PeerResolvesOne
  <2>2. Resolved' = Resolved \cup {[part |-> p, offset |-> o]}
    BY <2>1 DEF Resolved, DeadLettered
  <2>3. committed' = committed
    BY <1>1 DEF PeerResolves
  <2> QED
    BY <2>1, <2>2, <2>3, ResolveOne
<1>2. CASE PeerCommits(p)
  BY <1>2, CommitOne DEF PeerCommits, outcome, Resolved, DeadLettered
<1> QED
  BY <1>1, <1>2

LEMMA StutterStep ==
  ASSUME UNCHANGED <<committed, outcome>>
  PROVE  [Abstract!Step]_(Abstract!vars)
  BY DEF outcome, Resolved, DeadLettered, Abstract!vars

LEMMA ProcessStep ==
  ASSUME TypeInv, Delivery, NEW r \in Runs, Process(r)
  PROVE  [Abstract!Step]_(Abstract!vars)
<1>1. CASE ProcessMessage(r)
  BY <1>1, ResolveStep DEF ProcessMessage, Resolved, DeadLettered, Holding, At
<1>2. CASE HandleSucceeds(r)
  BY <1>2, ResolveStep DEF HandleSucceeds, Resolved, DeadLettered, Holding, At
<1>3. CASE HandleFails(r) \/ RetryFails(r)
  BY <1>3, StutterStep DEF HandleFails, RetryFails
<1>4. CASE DispatchSucceeds(r)
  BY <1>4, DeadLetteredAdds, ResolveStep
     DEF DispatchSucceeds, Resolved, Holding, At
<1>5. CASE DispatchFails(r)
  BY <1>5, DeadLetteredGrows, ResolveStep
     DEF DispatchFails, LoopFails, Resolved, Holding, At
<1>6. CASE CommitMessage(r)
  BY <1>6, CommitStep DEF CommitMessage, outcome, Resolved, DeadLettered
<1>7. CASE CommitFails(r)
  BY <1>7, CommitStep DEF CommitFails, outcome, Resolved, DeadLettered
<1> QED
  BY <1>1, <1>2, <1>3, <1>4, <1>5, <1>6, <1>7 DEF Process

LEMMA NextStep ==
  ASSUME TypeInv, Delivery, [Next]_vars
  PROVE  [Abstract!Step]_(Abstract!vars)
<1>1. ASSUME NEW r \in Runs, Run(r) \/ Poll(r) \/ Reporter(r)
      PROVE  UNCHANGED <<committed, outcome>>
  BY <1>1 DEF Run, Poll, Select, LoopFinishes, ReadMessage, ReadTimesOut,
              ReadFails, Reporter, ReportError, ReporterSeesShutdown,
              ReporterFinishes
<1>2. ASSUME NEW c \in Callers, CallShutdown(c) \/ Shutdown(c)
      PROVE  UNCHANGED <<committed, outcome>>
  BY <1>2 DEF CallShutdown, Shutdown, StartShutdown, SeeFinished, Close
<1>3. ASSUME ListenShutdown \/ Restart \/ UNCHANGED vars
      PROVE  UNCHANGED <<committed, outcome>>
  BY <1>3 DEF ListenShutdown, Restart, vars
<1>4. ASSUME NEW p \in Partitions, Assign(p) \/ Revoke(p)
      PROVE  UNCHANGED <<committed, outcome>>
  BY <1>4 DEF Assign, Revoke
<1> QED
  BY <1>1, <1>2, <1>3, <1>4, StutterStep, ProcessStep, PeerStep DEF Next, Group

(* The poll loop with its retries, dead letters, failed commits, crashes    *)
(* and lost partitions implements the abstract at-least-once group.         *)
THEOREM Refines == ASSUME SingleRun PROVE Spec => ImplementsAtLeastOnce
<1>1. Init => TypeInv /\ Delivery
  BY TypeInit, DeliveryInit
<1>2. TypeInv /\ Delivery /\ [Next]_vars => (TypeInv /\ Delivery)'
  BY TypeNext, DeliveryNext
<1>3. Init => Abstract!Init
  BY DEF Init, Abstract!Init, Resolved, DeadLettered
<1>4. TypeInv /\ Delivery /\ [Next]_vars => [Abstract!Step]_(Abstract!vars)
  BY NextStep
<1> QED
  BY <1>1, <1>2, <1>3, <1>4, PTL DEF Spec, ImplementsAtLeastOnce, Abstract!Spec

-----------------------------------------------------------------------------
(***************************************************************************)
(* The codecs, and the records of the dead letter topic.                    *)
(***************************************************************************)

(* A message with one recognised header is read with the codec it names. *)
LEMMA OneHeader ==
  ASSUME NEW h, Recognised(h)
  PROVE  NewMessageType(<<h>>) = IF h.value = textType THEN textType ELSE jsonType
<1> DEFINE known == {i \in DOMAIN <<h>> : Recognised(<<h>>[i])}
           first == CHOOSE i \in known : \A j \in known : i <= j
<1>1. known = {1}
  OBVIOUS
<1>2. first = 1
  <2>1. \E i \in known : \A j \in known : i <= j
    BY <1>1
  <2> QED
    BY <1>1, <2>1
<1> QED
  BY <1>1, <1>2 DEF NewMessageType

(* What Serialize made of a payload is read back with the same codec. *)
LEMMA ProducedType ==
  ASSUME NEW payload, payload.type \in {textType, jsonType}
  PROVE  /\ NewMessageType(Produced(payload).headers) = payload.type
         /\ Produced(payload).value = payload.value
<1> DEFINE h == [key |-> ContentTypeHeaderKey, value |-> payload.type]
<1>1. Recognised(h)
  BY DEF Recognised
<1>2. Produced(payload).headers = <<h>> /\ Produced(payload).value = payload.value
  BY DEF Produced
<1>3. NewMessageType(<<h>>) = IF h.value = textType THEN textType ELSE jsonType
  BY <1>1, OneHeader
<1> QED
  BY <1>2, <1>3 DEF textType, jsonType

(* A content that was decoded can be encoded again and decoded once more. *)
LEMMA RoundTrip ==
  ASSUME NEW message, Decodes(message)
  PROVE  Decodes(Produced(NewWithData(message)))
<1> DEFINE type    == NewMessageType(message.headers)
           payload == NewWithData(message)
<1>1. type \in {textType, jsonType} /\ Deserializes(type, message.value)
  BY DEF Decodes, NewMessageType
<1>2. payload.type = type
  BY DEF NewWithData
<1>3. Deserializes(type, payload.value)
  BY <1>1, MessageAssumption
     DEF NewWithData, Deserializes, textType, jsonType
<1>4. /\ NewMessageType(Produced(payload).headers) = type
      /\ Produced(payload).value = payload.value
  BY <1>1, <1>2, ProducedType
<1>5. type # ErrUnknownMessageType
  BY DEF Decodes
<1> QED
  BY <1>3, <1>4, <1>5 DEF Decodes

(* Only a content that decoded reaches Handle and dispatchToDeadLetterTopic,*)
(* only one that did not reaches dispatchToDeadLetterTopicAsText.           *)
Decoded ==
  \A r \in Runs :
    /\ loop[r] \in {"handle", "retry", "dispatch"} => Decodes(Message(inHand[r]))
    /\ loop[r] = "dispatchText" => ~Decodes(Message(inHand[r]))

LEMMA DecodedNext ==
  ASSUME TypeInv, Decoded, [Next]_vars PROVE Decoded'
<1> USE DEF Decoded, TypeInv, TypeOK, At, Goto, reading, Message
<1>1. ASSUME NEW r \in Runs, Run(r) \/ Poll(r) PROVE Decoded'
  BY <1>1 DEF Run, Poll, Select, LoopFinishes, ReadMessage, ReadTimesOut,
              ReadFails, LoopFails
<1>2. ASSUME NEW r \in Runs, Process(r) PROVE Decoded'
  BY <1>2 DEF Process, ProcessMessage, HandleSucceeds, HandleFails, RetryFails,
              DispatchSucceeds, DispatchFails, CommitMessage, CommitFails,
              LoopFails
<1>3. ASSUME NEW r \in Runs, Reporter(r) PROVE Decoded'
  BY <1>3 DEF Reporter, ReportError, ReporterSeesShutdown, ReporterFinishes
<1>4. ASSUME NEW c \in Callers, CallShutdown(c) \/ Shutdown(c) PROVE Decoded'
  BY <1>4 DEF CallShutdown, Shutdown, StartShutdown, SeeFinished, Close
<1>5. ASSUME ListenShutdown \/ Restart \/ UNCHANGED vars PROVE Decoded'
  BY <1>5 DEF ListenShutdown, Restart, vars
<1>6. ASSUME NEW p \in Partitions,
             Assign(p) \/ Revoke(p) \/ PeerResolves(p) \/ PeerCommits(p)
      PROVE  Decoded'
  BY <1>6 DEF Assign, Revoke, PeerResolves, PeerCommits
<1> QED
  BY <1>1, <1>2, <1>3, <1>4, <1>5, <1>6 DEF Next, Group

(* The record a member builds from a message. *)
LEMMA DeadLetterDecodes ==
  ASSUME NEW m, DeadLettersDecode,
         dlt' \subseteq dlt \cup {DeadLetterOf(m, Decodes(Message(m)))}
  PROVE  DeadLettersDecode'
<1> DEFINE d == DeadLetterOf(m, Decodes(Message(m)))
<1>1. ASSUME Decodes(Message(d.src)) PROVE Decodes(Produced(d.payload))
  <2>1. d.src = m /\ d.payload = NewWithData(Message(m))
    BY <1>1 DEF DeadLetterOf
  <2> QED
    BY <1>1, <2>1, RoundTrip
<1> QED
  BY <1>1 DEF DeadLettersDecode

LEMMA DeadLettersNext ==
  ASSUME Decoded, DeadLettersDecode, [Next]_vars PROVE DeadLettersDecode'
<1>1. ASSUME dlt' = dlt PROVE DeadLettersDecode'
  BY <1>1 DEF DeadLettersDecode
<1>2. ASSUME NEW r \in Runs, DispatchSucceeds(r) \/ DispatchFails(r)
      PROVE  DeadLettersDecode'
  <2>1. /\ dlt' \subseteq dlt \cup {DeadLetter(r)}
        /\ At(r, "dispatch") \/ At(r, "dispatchText")
    BY <1>2 DEF DispatchSucceeds, DispatchFails
  <2>2. DeadLetter(r) = DeadLetterOf(inHand[r], Decodes(Message(inHand[r])))
    BY <2>1 DEF DeadLetter, DeadLetterOf, Decoded, At
  <2> QED
    BY <2>1, <2>2, DeadLetterDecodes
<1>3. ASSUME NEW r \in Runs,
             \/ Run(r) \/ Poll(r) \/ Reporter(r) \/ ProcessMessage(r)
             \/ HandleSucceeds(r) \/ HandleFails(r) \/ RetryFails(r)
             \/ CommitMessage(r) \/ CommitFails(r)
      PROVE  dlt' = dlt
  BY <1>3 DEF Run, Poll, Select, LoopFinishes, ReadMessage, ReadTimesOut,
              ReadFails, Reporter, ReportError, ReporterSeesShutdown,
              ReporterFinishes, ProcessMessage, HandleSucceeds, HandleFails,
              RetryFails, CommitMessage, CommitFails, outcome
<1>4. ASSUME NEW c \in Callers, CallShutdown(c) \/ Shutdown(c)
      PROVE  dlt' = dlt
  BY <1>4 DEF CallShutdown, Shutdown, StartShutdown, SeeFinished, Close, outcome
<1>5. ASSUME ListenShutdown \/ Restart \/ UNCHANGED vars PROVE dlt' = dlt
  BY <1>5 DEF ListenShutdown, Restart, vars, outcome
<1>6. ASSUME NEW p \in Partitions, Assign(p) \/ Revoke(p) \/ PeerCommits(p)
      PROVE  dlt' = dlt
  BY <1>6 DEF Assign, Revoke, PeerCommits, outcome
<1>7. ASSUME NEW p \in Partitions, PeerResolves(p) PROVE DeadLettersDecode'
  BY <1>1, <1>7, PeerResolvesOne, DeadLetterDecodes
<1> QED
  BY <1>1, <1>2, <1>3, <1>4, <1>5, <1>6, <1>7 DEF Next, Group, Process

(* Everything on the dead letter topic that came from a message the handler *)
(* could decode can be decoded again, for any set of payloads, either kind  *)
(* of content type and any number of loops.                                 *)
THEOREM DeadLettersReadable == Spec => []DeadLettersDecode
<1>1. Init => TypeInv /\ Decoded /\ DeadLettersDecode
  BY TypeInit DEF Init, Decoded, DeadLettersDecode
<1>2. TypeInv /\ Decoded /\ DeadLettersDecode /\ [Next]_vars
        => (TypeInv /\ Decoded /\ DeadLettersDecode)'
  BY TypeNext, DecodedNext, DeadLettersNext
<1> QED
  BY <1>1, <1>2, PTL DEF Spec
=============================================================================
