----------------------------- MODULE Transaction -----------------------------
(***************************************************************************)
(* pkg/database/sql: goroutines that call TransactionContext on one         *)
(* Connection (connection.go:158-184), whose function runs statements with  *)
(* the transaction it finds in its context, may call TransactionContext     *)
(* again, returns, or panics into a caller that recovers.                   *)
(*                                                                          *)
(* External and reduced to what the code relies on: database/sql hands out  *)
(* at most MaxOpenConn connections, blocks when there is none, and has a     *)
(* goroutine that rolls a transaction back when the context it was begun    *)
(* with is done, while Commit and Rollback no longer wait for anything;     *)
(* PostgreSQL refuses every statement after one it has refused and answers  *)
(* the commit of such a transaction with a rollback, which the driver       *)
(* reports; a commit whose answer is lost may or may not have happened.     *)
(***************************************************************************)
EXTENDS Integers, FiniteSets

CONSTANTS
  Workers,        \* goroutines, each with one call of TransactionContext
  Foreign,        \* those that carry a Transaction of another type (a wrapper)
  MaxOpenConn,    \* Config.MaxOpenConn; 0 is unlimited
  MaxDepth,       \* bound: MaxDepth[w] calls of worker w inside one another
  MaxStatements,  \* bound: MaxStatements[w] that take effect in a call of w
  MayPanic,       \* workers whose fn may panic
  MayCancel       \* workers whose context may be done before their call is over

ASSUME TransactionAssumption ==
  /\ IsFiniteSet(Workers)
  /\ Foreign \subseteq Workers
  /\ MaxOpenConn \in Nat
  /\ MaxDepth \in [Workers -> Nat] /\ MaxStatements \in [Workers -> Nat]

(* The calls of TransactionContext, each by its worker and by how many are  *)
(* around it.                                                               *)
Calls == UNION {[worker : {w}, depth : 1..MaxDepth[w]] : w \in Workers}

VARIABLES
  depth,      \* depth[w]: calls of TransactionContext on the stack of w
  tx,         \* tx[c]: the transaction of call c
  done,       \* done[c]: statements of call c that took effect, 1..done[c]
  refused,    \* calls of which the server refused a statement
  visible,    \* statements the other sessions see, as <<call, number>>
  result,     \* result[c]: what call c returned
  cancelled,  \* workers whose context is done
  asking      \* workers in a statement that needs a connection of its own

vars == <<depth, tx, done, refused, visible, result, cancelled, asking>>

Init ==
  /\ depth = [w \in Workers |-> 0]
  /\ tx = [c \in Calls |-> "none"]
  /\ done = [c \in Calls |-> 0]
  /\ refused = {}
  /\ visible = {}
  /\ result = [c \in Calls |-> "none"]
  /\ cancelled = {}
  /\ asking = {}

Call(w, d)    == [worker |-> w, depth |-> d]
Top(w)        == Call(w, depth[w])
Statements(c) == {c} \X (1..done[c])

-----------------------------------------------------------------------------
(* The pool *)

(* A transaction keeps its connection until it ends on the server, whatever *)
(* became of the call that began it.  While it is "ending", the goroutine   *)
(* of database/sql is rolling it back.                                      *)
HoldsConnection(c) == tx[c] \in {"active", "aborted", "ending"}
InUse == {c \in Calls : HoldsConnection(c)}

(* Mutant of ConnectionFree: the pool is sized one short. *)
PoolOneShort == MaxOpenConn = 0 \/ Cardinality(InUse) + 1 < MaxOpenConn

ConnectionFree == MaxOpenConn = 0 \/ Cardinality(InUse) < MaxOpenConn

-----------------------------------------------------------------------------
(* TransactionContext *)

(* fn is running, outside a statement, with the transaction of the call in  *)
(* its context.                                                             *)
Running(w) ==
  depth[w] > 0 /\ tx[Top(w)] \notin {"none", "begin"} /\ w \notin asking

(* Mutant of Return: the call that is around this one is popped as well. *)
ReturnTwice(w, value, state) ==
  /\ result' = [result EXCEPT ![Top(w)] = value]
  /\ tx' = [tx EXCEPT ![Top(w)] = state]
  /\ depth' = [depth EXCEPT ![w] = @ - 2]

(* The call pops off the stack with a result and leaves its transaction so. *)
Return(w, value, state) ==
  /\ result' = [result EXCEPT ![Top(w)] = value]
  /\ tx' = [tx EXCEPT ![Top(w)] = state]
  /\ depth' = [depth EXCEPT ![w] = @ - 1]

CallTransactionContext(w) ==
  LET c == Call(w, depth[w] + 1)
  IN  /\ depth[w] = 0 \/ Running(w)
      /\ depth[w] < MaxDepth[w]
      /\ tx[c] = "none"
      /\ depth' = [depth EXCEPT ![w] = @ + 1]
      /\ tx' = [tx EXCEPT ![c] = "begin"]
      /\ UNCHANGED <<done, refused, visible, result, cancelled, asking>>

(* Begin asks the pool for a connection of its own, also when the context   *)
(* carries a transaction.                                                   *)
BeginSucceeds(w) ==
  /\ depth[w] > 0 /\ tx[Top(w)] = "begin"
  /\ w \notin cancelled
  /\ ConnectionFree
  /\ tx' = [tx EXCEPT ![Top(w)] = "active"]
  /\ UNCHANGED <<depth, done, refused, visible, result, cancelled, asking>>

(* The server refused, or the context is done before there is a connection. *)
BeginFails(w) ==
  /\ depth[w] > 0 /\ tx[Top(w)] = "begin"
  /\ w \in cancelled \/ ConnectionFree
  /\ Return(w, "error", "ended")
  /\ UNCHANGED <<done, refused, visible, cancelled, asking>>

(* Mutant of FnSucceeds: the error of Commit is dropped. *)
CommitErrorDropped(w) ==
  LET c == Top(w)
      commits == tx[c] = "active" /\ w \notin cancelled
  IN  /\ Running(w)
      /\ visible' = IF commits THEN visible \cup Statements(c) ELSE visible
      /\ Return(w, "nil", "ended")
      /\ UNCHANGED <<done, refused, cancelled, asking>>

(* fn returned nil.  The commit goes through, or is lost on the way back;   *)
(* the server rolls back instead if it had refused a statement.  Once the   *)
(* context is done Commit returns its error and does nothing else: the      *)
(* transaction, and its connection, are left to the goroutine of            *)
(* database/sql.                                                            *)
FnSucceeds(w) ==
  LET c == Top(w)
  IN  /\ Running(w)
      /\ \/ /\ tx[c] = "active" /\ w \notin cancelled
            /\ visible' = visible \cup Statements(c)
            /\ Return(w, "nil", "ended")
         \/ /\ tx[c] = "active" /\ w \notin cancelled
            /\ visible' \in {visible, visible \cup Statements(c)}
            /\ Return(w, "unknown", "ended")
         \/ /\ tx[c] = "aborted" /\ w \notin cancelled
            /\ UNCHANGED visible
            /\ Return(w, "error", "ended")
         \/ /\ w \in cancelled
            /\ UNCHANGED visible
            /\ Return(w, "error", tx[c])
      /\ UNCHANGED <<done, refused, cancelled, asking>>

(* Mutant of FnFails: the error is returned without a rollback. *)
NoRollback(w) ==
  /\ Running(w)
  /\ Return(w, "error", tx[Top(w)])
  /\ UNCHANGED <<done, refused, visible, cancelled, asking>>

(* fn returned an error: Rollback, whose own error is joined to that of fn. *)
(* It finds nothing to do when database/sql has begun to roll back.         *)
FnFails(w) ==
  /\ Running(w)
  /\ Return(w, "error", IF tx[Top(w)] = "ending" THEN "ending" ELSE "ended")
  /\ UNCHANGED <<done, refused, visible, cancelled, asking>>

(* Nothing is deferred: a panic unwinds every call of the worker and leaves *)
(* the transactions as they are.                                            *)
Panic(w) ==
  /\ w \in MayPanic
  /\ Running(w)
  /\ result' = [c \in Calls |->
       IF c.worker = w /\ c.depth <= depth[w] THEN "panic" ELSE result[c]]
  /\ depth' = [depth EXCEPT ![w] = 0]
  /\ UNCHANGED <<tx, done, refused, visible, cancelled, asking>>

-----------------------------------------------------------------------------
(* Get, Select and Exec *)

(* txFromContext only knows the transactions this package makes.            *)
TxFromContext(w) == w \notin Foreign

(* A statement takes effect, or the server refuses it and the transaction   *)
(* is aborted; fn may drop the error.  One that only fails on the client    *)
(* (no row, a value that cannot be scanned) is either of the first kind or  *)
(* changed nothing: the transaction goes on and can be committed.           *)
StatementInside(w) ==
  LET c == Top(w)
  IN  /\ Running(w) /\ TxFromContext(w)
      /\ tx[c] = "active" /\ w \notin cancelled
      /\ \/ /\ done[c] < MaxStatements[w]
            /\ done' = [done EXCEPT ![c] = @ + 1]
            /\ UNCHANGED <<tx, refused>>
         \/ /\ tx' = [tx EXCEPT ![c] = "aborted"]
            /\ refused' = refused \cup {c}
            /\ UNCHANGED done
      /\ UNCHANGED <<depth, visible, result, cancelled, asking>>

(* Without a transaction in the context a statement goes to the pool, and   *)
(* fn waits in it while there is no connection.  Bound: fn has had enough   *)
(* when one was refused.                                                    *)
AskPool(w) ==
  /\ Running(w) /\ ~TxFromContext(w)
  /\ w \notin cancelled
  /\ done[Top(w)] < MaxStatements[w] /\ Top(w) \notin refused
  /\ asking' = asking \cup {w}
  /\ UNCHANGED <<depth, tx, done, refused, visible, result, cancelled>>

(* It is committed on its own, or refused; it is given up when the context  *)
(* is done before there is a connection.                                    *)
StatementOnPool(w) ==
  LET c == Top(w)
  IN  /\ w \in asking
      /\ asking' = asking \ {w}
      /\ \/ /\ ConnectionFree /\ w \notin cancelled
            /\ done' = [done EXCEPT ![c] = @ + 1]
            /\ visible' = visible \cup {<<c, done[c] + 1>>}
            /\ UNCHANGED refused
         \/ /\ ConnectionFree /\ w \notin cancelled
            /\ refused' = refused \cup {c}
            /\ UNCHANGED <<done, visible>>
         \/ /\ w \in cancelled
            /\ UNCHANGED <<done, refused, visible>>
      /\ UNCHANGED <<depth, tx, result, cancelled>>

-----------------------------------------------------------------------------
(* The context *)

(* While its call runs only where MayCancel says so.  Afterwards it may, as *)
(* net/http does with the context of a request, and need not: that of       *)
(* context.Background is never done.  With nothing left to give back it     *)
(* makes no difference any more.                                            *)
Cancel(w) ==
  /\ \/ depth[w] > 0 /\ w \in MayCancel
     \/ depth[w] = 0 /\ \E c \in InUse : c.worker = w
  /\ cancelled' = cancelled \cup {w}
  /\ UNCHANGED <<depth, tx, done, refused, visible, result, asking>>

(* Mutant of RollbackOnCancel: Begin instead of BeginTxx(ctx). *)
BegunWithoutContext(c) == FALSE

(* BeginTxx(ctx): the goroutine of database/sql that waits for ctx takes    *)
(* the transaction from whoever might still commit it.                      *)
RollbackOnCancel(c) ==
  /\ tx[c] \in {"active", "aborted"}
  /\ c.worker \in cancelled
  /\ tx' = [tx EXCEPT ![c] = "ending"]
  /\ UNCHANGED <<depth, done, refused, visible, result, cancelled, asking>>

(* It has rolled back, and the connection is in the pool again. *)
RolledBack(c) ==
  /\ tx[c] = "ending"
  /\ tx' = [tx EXCEPT ![c] = "ended"]
  /\ UNCHANGED <<depth, done, refused, visible, result, cancelled, asking>>

-----------------------------------------------------------------------------
(* fn and everything TransactionContext does around it. *)
Step(w) ==
  \/ CallTransactionContext(w)
  \/ BeginSucceeds(w)
  \/ BeginFails(w)
  \/ StatementInside(w)
  \/ AskPool(w)
  \/ StatementOnPool(w)
  \/ FnSucceeds(w)
  \/ FnFails(w)
  \/ Panic(w)

Next ==
  \/ \E w \in Workers : Step(w) \/ Cancel(w)
  \/ \E c \in Calls : RollbackOnCancel(c) \/ RolledBack(c)

Spec == Init /\ [][Next]_vars

(* fn ends, a connection that stays free goes to somebody who waits for     *)
(* one, and database/sql rolls back.  No context has to be done.            *)
Fairness ==
  /\ \A w \in Workers : WF_vars(depth[w] > 0 /\ Step(w))
  /\ \A c \in Calls : WF_vars(RollbackOnCancel(c)) /\ WF_vars(RolledBack(c))

FairSpec == Spec /\ Fairness

-----------------------------------------------------------------------------
TypeOK ==
  /\ depth \in [Workers -> Nat] /\ \A w \in Workers : depth[w] <= MaxDepth[w]
  /\ tx \in [Calls -> {"none", "begin", "active", "aborted", "ending", "ended"}]
  /\ done \in [Calls -> Nat]
  /\ refused \subseteq Calls
  /\ visible \subseteq Calls \X Nat
  /\ result \in [Calls -> {"none", "nil", "error", "unknown", "panic"}]
  /\ cancelled \subseteq Workers
  /\ asking \subseteq Foreign

VisibleOf(c) == {s \in visible : s[1] = c}

(* A call that returned nil has everything its statements did committed,    *)
(* and the server refused none of them, even if fn swallowed the error; one *)
(* that returned an error, panicked or still runs has left nothing behind;  *)
(* and a commit without an answer leaves all or nothing (connection.go      *)
(* :169-183).  A Transaction of another type is left out: its statements do *)
(* not run inside it.                                                       *)
AllOrNothing ==
  \A c \in {d \in Calls : TxFromContext(d.worker)} :
    /\ result[c] = "nil" => VisibleOf(c) = Statements(c) /\ c \notin refused
    /\ result[c] \in {"none", "error", "panic"} => VisibleOf(c) = {}
    /\ result[c] = "unknown" => VisibleOf(c) \in {{}, Statements(c)}

(* A call that has returned, in any way but a panic, has given its          *)
(* connection back, or has left that to database/sql with a context that is *)
(* done: no path through TransactionContext forgets it (connection.go       *)
(* :169-183).                                                               *)
ConnectionReturned ==
  \A c \in Calls :
    HoldsConnection(c) => \/ result[c] \in {"none", "panic"}
                          \/ c.worker \in cancelled

(* A worker that cannot go on without a connection. *)
Waits(w) ==
  \/ depth[w] > 0 /\ tx[Top(w)] = "begin"
  \/ w \in asking

(* Nobody will give the connection of c back: its call is over, and the     *)
(* context is not done.                                                     *)
Leaked(c) ==
  /\ HoldsConnection(c)
  /\ c.depth > depth[c.worker] /\ c.worker \notin cancelled

(* Those who wait for the pool never all wait for each other: while it has  *)
(* no connection left, one of those in use is held by a call that can go on,*)
(* or is being given back with its context, or a panic has leaked one       *)
(* (connection.go:80, 141-162).                                             *)
PoolServes ==
  \/ ConnectionFree
  \/ \E c \in InUse : Leaked(c) \/ c.worker \in cancelled \/ ~Waits(c.worker)

(* The calls that may hold a connection while their worker waits for one:   *)
(* all but the innermost, and that one too if a statement can miss it.      *)
HeldWhileWaiting ==
  {c \in Calls : c.depth < MaxDepth[c.worker] \/ c.worker \in Foreign}

(* The pool has one connection more than those. *)
PoolSuffices ==
  MaxOpenConn = 0 \/ MaxOpenConn > Cardinality(HeldWhileWaiting)

(* No connection is leaked for good: the contexts of calls that panicked    *)
(* are done some time.  Nothing in the code sees to it.                     *)
LeaksEnd == <>[](\A c \in Calls : ~Leaked(c))

(* Unless a panic leaks one for good, every connection that is taken comes  *)
(* back, whatever fn, the server and the context do: also where Commit and  *)
(* Rollback have left it to database/sql (connection.go:142, 169-183).      *)
ConnectionsComeBack ==
  LeaksEnd => \A c \in Calls : HoldsConnection(c) ~> ~HoldsConnection(c)

(* Every call then gets a connection from a pool that suffices, and returns,*)
(* nested calls included.                                                   *)
CallsReturn ==
  LeaksEnd => \A c \in Calls : tx[c] = "begin" ~> result[c] # "none"
=============================================================================
