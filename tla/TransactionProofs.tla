------------------------- MODULE TransactionProofs --------------------------
(***************************************************************************)
(* The safety properties of Transaction, for any workers, any nesting, any  *)
(* number of statements and a pool of any size.                             *)
(***************************************************************************)
EXTENDS Transaction, FiniteSetTheorems, TLAPS

(* The calls up to the depth of their worker are running, without a result; *)
(* of the others, those that have begun have one.                           *)
Stack ==
  \A c \in Calls :
    /\ c.depth <= depth[c.worker] => result[c] = "none" /\ tx[c] # "none"
    /\ c.depth > depth[c.worker] => (tx[c] = "none" <=> result[c] = "none")

(* A transaction of which the server refused a statement has begun, and can *)
(* do nothing more unless the statement ran outside of it.                  *)
RefusedEnds ==
  \A c \in refused :
    /\ tx[c] \notin {"none", "begin"}
    /\ TxFromContext(c.worker) => tx[c] \in {"aborted", "ending", "ended"}

(* Who waits in a statement has a call, and its transaction has begun. *)
Asks == \A w \in asking : depth[w] > 0 /\ tx[Top(w)] \notin {"none", "begin"}

(* database/sql only rolls back what has lost its context. *)
EndsWithContext == \A c \in Calls : tx[c] = "ending" => c.worker \in cancelled

Inv == /\ TypeOK
       /\ Stack
       /\ RefusedEnds
       /\ EndsWithContext
       /\ Asks
       /\ AllOrNothing
       /\ ConnectionReturned

LEMMA CallShape ==
  /\ \A w \in Workers : \A d \in 1..MaxDepth[w] :
       Call(w, d) \in Calls /\ Call(w, d).worker = w /\ Call(w, d).depth = d
  /\ \A c \in Calls :
       /\ c.worker \in Workers /\ c.depth \in Nat /\ c.depth > 0
       /\ c.depth <= MaxDepth[c.worker]
       /\ c = Call(c.worker, c.depth)
  BY TransactionAssumption DEF Calls, Call

LEMMA TopCall ==
  ASSUME TypeOK, NEW w \in Workers, depth[w] > 0
  PROVE  /\ Top(w) \in Calls
         /\ Top(w).worker = w /\ Top(w).depth = depth[w]
         /\ \A c \in Calls : c.worker = w /\ c.depth = depth[w] => c = Top(w)
<1>1. depth[w] \in 1..MaxDepth[w]
  BY TransactionAssumption DEF TypeOK
<1> QED
  BY <1>1, CallShape DEF Top

LEMMA RunningTop ==
  ASSUME Inv, NEW w \in Workers, Running(w)
  PROVE  depth[w] > 0 /\ Top(w) \in Calls /\ result[Top(w)] = "none"
<1>1. depth[w] > 0
  BY DEF Running
<1> QED
  BY <1>1, TopCall DEF Inv, Stack, TypeOK

(* What a commit adds is of its own call. *)
LEMMA Committed ==
  ASSUME NEW d \in Calls, visible' = visible \cup Statements(d)
  PROVE  \A c \in Calls :
           VisibleOf(c)' = IF c = d THEN VisibleOf(c) \cup Statements(c)
                           ELSE VisibleOf(c)
  BY DEF VisibleOf, Statements

LEMMA StatementsTyped ==
  ASSUME TypeOK, NEW c \in Calls
  PROVE  Statements(c) \subseteq Calls \X Nat
<1>1. done[c] \in Nat
  BY DEF TypeOK
<1>2. 1..done[c] \subseteq Nat
  BY <1>1
<1> QED
  BY <1>2 DEF Statements

LEMMA Initially == Init => Inv
<1> SUFFICES ASSUME Init PROVE Inv
  OBVIOUS
<1>1. TypeOK
  BY TransactionAssumption DEF Init, TypeOK
<1>2. Stack /\ RefusedEnds /\ EndsWithContext /\ Asks
  BY CallShape DEF Init, Stack, RefusedEnds, EndsWithContext, Asks
<1>3. AllOrNothing /\ ConnectionReturned
  BY DEF Init, AllOrNothing, ConnectionReturned, HoldsConnection, VisibleOf
<1> QED
  BY <1>1, <1>2, <1>3 DEF Inv

(* Every way in which a call of TransactionContext returns: with its        *)
(* transaction ended, or left as it is where the context is done.           *)
LEMMA Returned ==
  ASSUME Inv, NEW w \in Workers, depth[w] > 0,
         NEW value \in {"nil", "error", "unknown"},
         NEW state, Return(w, value, state),
         \/ state = "ended"
         \/ /\ state = tx[Top(w)] /\ state \notin {"none", "begin"}
            /\ w \in cancelled,
         w \notin asking, UNCHANGED <<done, refused, cancelled, asking>>,
         value = "nil" => /\ visible' = visible \cup Statements(Top(w))
                          /\ TxFromContext(w) => Top(w) \notin refused,
         value = "error" => visible' = visible,
         value = "unknown" =>
           visible' \in {visible, visible \cup Statements(Top(w))}
  PROVE  Inv'
<1> DEFINE top == Top(w)
<1>1. /\ TypeOK /\ top \in Calls /\ top.worker = w /\ top.depth = depth[w]
      /\ \A c \in Calls : c.worker = w /\ c.depth = depth[w] => c = top
      /\ result[top] = "none"
  BY TopCall DEF Inv, Stack, TypeOK
<1>2. /\ result' = [result EXCEPT ![top] = value]
      /\ tx' = [tx EXCEPT ![top] = state]
      /\ depth' = [depth EXCEPT ![w] = @ - 1]
      /\ state \notin {"none", "begin"}
      /\ state # "ended" => state = tx[top] /\ top.worker \in cancelled
  BY <1>1 DEF Return
<1> HIDE DEF top
<1>3. visible' \in {visible, visible \cup Statements(top)}
  BY DEF top
<1>4. TypeOK'
  <2>1. visible' \subseteq Calls \X Nat
    BY <1>1, <1>3, StatementsTyped DEF TypeOK
  <2>2. /\ depth' \in [Workers -> Nat]
        /\ \A v \in Workers : depth'[v] <= MaxDepth[v]
    <3>1. depth[w] - 1 \in Nat /\ depth[w] - 1 <= MaxDepth[w]
      BY <1>1, TransactionAssumption DEF TypeOK
    <3> QED
      BY <1>1, <1>2, <3>1 DEF TypeOK
  <2>3. /\ tx' \in [Calls -> {"none", "begin", "active", "aborted", "ending", "ended"}]
        /\ result' \in [Calls -> {"none", "nil", "error", "unknown", "panic"}]
    BY <1>1, <1>2 DEF TypeOK
  <2> QED
    BY <1>1, <2>1, <2>2, <2>3 DEF TypeOK
<1>5. Stack'
  <2> SUFFICES ASSUME NEW c \in Calls
               PROVE  /\ c.depth <= depth'[c.worker] => result'[c] = "none" /\ tx'[c] # "none"
                      /\ c.depth > depth'[c.worker] => (tx'[c] = "none" <=> result'[c] = "none")
    BY DEF Stack
  <2>1. c.worker \in Workers /\ c.depth \in Nat /\ depth[c.worker] \in Nat
    BY <1>1, CallShape DEF TypeOK
  <2>2. CASE c = top
    <3>1. result'[c] = value /\ tx'[c] = state /\ depth'[c.worker] = depth[w] - 1
      BY <1>1, <1>2, <2>2 DEF TypeOK
    <3> QED
      BY <1>1, <1>2, <2>1, <2>2, <3>1
  <2>3. CASE c # top
    <3>1. result'[c] = result[c] /\ tx'[c] = tx[c]
      BY <1>1, <1>2, <2>3 DEF TypeOK
    <3>2. c.depth <= depth'[c.worker] <=> c.depth <= depth[c.worker]
      <4>1. CASE c.worker = w
        <5>1. depth'[c.worker] = depth[w] - 1 /\ c.depth # depth[w]
          BY <1>1, <1>2, <2>3, <4>1 DEF TypeOK
        <5> QED
          BY <2>1, <4>1, <5>1
      <4>2. CASE c.worker # w
        BY <1>1, <1>2, <2>1, <4>2 DEF TypeOK
      <4> QED
        BY <4>1, <4>2
    <3>3. depth'[c.worker] \in Nat
      BY <1>4, <2>1, TransactionAssumption DEF TypeOK
    <3> QED
      BY <2>1, <3>1, <3>2, <3>3 DEF Inv, Stack
  <2> QED
    BY <2>2, <2>3
<1>6. RefusedEnds' /\ EndsWithContext' /\ Asks'
  <2>1. RefusedEnds' /\ EndsWithContext'
    BY <1>1, <1>2 DEF Inv, RefusedEnds, EndsWithContext, TxFromContext, TypeOK
  <2>2. ASSUME NEW v \in asking
        PROVE  depth'[v] > 0 /\ tx'[Top(v)'] \notin {"none", "begin"}
    <3>1. v \in Workers /\ v # w /\ depth'[v] = depth[v] /\ Top(v)' = Top(v)
      BY <1>1, <1>2, TransactionAssumption DEF TypeOK, Top
    <3>2. depth[v] > 0 /\ tx[Top(v)] \notin {"none", "begin"}
      BY DEF Inv, Asks
    <3>3. Top(v) \in Calls
      BY <1>1, <3>1, <3>2, TopCall
    <3> QED
      BY <1>1, <1>2, <3>1, <3>2, <3>3 DEF TypeOK
  <2> QED
    BY <2>1, <2>2 DEF Asks
<1>7. AllOrNothing'
  <2> SUFFICES ASSUME NEW c \in Calls, TxFromContext(c.worker)
               PROVE  /\ result'[c] = "nil" => VisibleOf(c)' = Statements(c)' /\ c \notin refused'
                      /\ result'[c] \in {"none", "error", "panic"} => VisibleOf(c)' = {}
                      /\ result'[c] = "unknown" => VisibleOf(c)' \in {{}, Statements(c)'}
    BY DEF AllOrNothing, TxFromContext
  <2>1. Statements(c)' = Statements(c)
    BY DEF Statements
  <2>2. visible' = visible => VisibleOf(c)' = VisibleOf(c)
    BY DEF VisibleOf
  <2>3. CASE c = top
    <3>1. result'[c] = value /\ VisibleOf(c) = {}
      BY <1>1, <1>2, <2>3 DEF Inv, AllOrNothing, TypeOK
    <3>2. visible' = visible \cup Statements(top) => VisibleOf(c)' = Statements(c)
      BY <1>1, <2>3, <3>1, Committed
    <3> QED
      BY <1>1, <2>1, <2>2, <2>3, <3>1, <3>2 DEF top, TxFromContext
  <2>4. CASE c # top
    <3>1. result'[c] = result[c]
      BY <1>1, <1>2, <2>4 DEF TypeOK
    <3>2. VisibleOf(c)' = VisibleOf(c)
      BY <1>1, <1>3, <2>2, <2>4, Committed
    <3> QED
      BY <2>1, <3>1, <3>2 DEF Inv, AllOrNothing
  <2> QED
    BY <2>3, <2>4
<1>8. ConnectionReturned'
  BY <1>1, <1>2 DEF Inv, ConnectionReturned, HoldsConnection, TypeOK
<1> QED
  BY <1>4, <1>5, <1>6, <1>7, <1>8 DEF Inv

(* What does not touch result, depth or visible, and moves one transaction  *)
(* whose call runs, or one that holds a connection, leaves the rest true.   *)
LEMMA TransactionMoved ==
  ASSUME Inv, NEW c \in Calls,
         NEW state \in {"active", "aborted", "ending", "ended"},
         tx[c] # "none", tx' = [tx EXCEPT ![c] = state],
         state = "active" => tx[c] = "begin",
         state = "aborted" => tx[c] = "active",
         refused' \in {refused, refused \cup {c}}, c \in refused' => state # "active",
         c \in refused' => c \in refused \/ result[c] = "none",
         state \in {"active", "aborted"} => result[c] = "none",
         state = "ending" => c.worker \in cancelled,
         UNCHANGED <<depth, done, visible, result, cancelled, asking>>
  PROVE  Inv'
<1>1. TypeOK'
  BY DEF Inv, TypeOK
<1>2. Stack'
  BY DEF Inv, Stack, TypeOK
<1>3. RefusedEnds' /\ EndsWithContext' /\ Asks'
  <2>1. RefusedEnds' /\ EndsWithContext'
    BY DEF Inv, RefusedEnds, EndsWithContext, TxFromContext, TypeOK
  <2>2. ASSUME NEW v \in asking PROVE tx'[Top(v)] \notin {"none", "begin"}
    BY DEF Inv, Asks, TypeOK
  <2> QED
    BY <2>1, <2>2 DEF Inv, Asks, Top
<1>4. AllOrNothing'
  <2>1. \A d \in Calls : VisibleOf(d)' = VisibleOf(d) /\ Statements(d)' = Statements(d)
    BY DEF VisibleOf, Statements
  <2>2. \A d \in Calls : result[d] = "nil" => (d \in refused' <=> d \in refused)
    OBVIOUS
  <2> QED
    BY <2>1, <2>2 DEF Inv, AllOrNothing, TxFromContext
<1>5. ConnectionReturned'
  BY DEF Inv, ConnectionReturned, HoldsConnection, TypeOK
<1> QED
  BY <1>1, <1>2, <1>3, <1>4, <1>5 DEF Inv

(* A statement inside the transaction, or outside of it for those whose     *)
(* transaction is of another type: it takes effect, and outside is visible  *)
(* at once, or it is refused or given up outside.                           *)
LEMMA StatementDone ==
  ASSUME Inv, NEW w \in Workers, depth[w] > 0,
         tx[Top(w)] \notin {"none", "begin"},
         \/ /\ done' = [done EXCEPT ![Top(w)] = @ + 1]
            /\ UNCHANGED refused
            /\ \/ visible' = visible
               \/ /\ ~TxFromContext(w)
                  /\ visible' = visible \cup {<<Top(w), done[Top(w)] + 1>>}
         \/ /\ ~TxFromContext(w)
            /\ refused' \in {refused, refused \cup {Top(w)}}
            /\ UNCHANGED <<done, visible>>,
         asking' \subseteq asking,
         UNCHANGED <<depth, tx, result, cancelled>>
  PROVE  Inv'
<1> DEFINE top == Top(w)
<1>1. top \in Calls /\ result[top] = "none" /\ top.worker = w
  BY TopCall DEF Inv, Stack, TypeOK
<1>2. done' = done \/ done' = [done EXCEPT ![top] = @ + 1]
  OBVIOUS
<1>7. \/ visible' = visible
      \/ ~TxFromContext(w) /\ visible' = visible \cup {<<top, done[top] + 1>>}
  BY DEF TxFromContext
<1>8. refused' = refused \/ (~TxFromContext(w) /\ refused' = refused \cup {top})
  BY DEF TxFromContext
<1>9. tx[top] \notin {"none", "begin"}
  OBVIOUS
<1> HIDE DEF top
<1>3. TypeOK'
  <2>1. done[top] + 1 \in Nat
    BY <1>1 DEF Inv, TypeOK
  <2>2. visible' \subseteq Calls \X Nat
    BY <1>1, <1>2, <1>7, <1>8, <1>9, <2>1 DEF Inv, TypeOK
  <2>3. done' \in [Calls -> Nat]
    BY <1>1, <1>2, <1>7, <1>8, <1>9, <2>1 DEF Inv, TypeOK
  <2>4. refused' \subseteq Calls /\ asking' \subseteq Foreign
    BY <1>1, <1>2, <1>7, <1>8, <1>9 DEF Inv, TypeOK
  <2> QED
    BY <2>2, <2>3, <2>4 DEF Inv, TypeOK
<1>4. Stack' /\ EndsWithContext' /\ ConnectionReturned'
  BY DEF Inv, Stack, EndsWithContext, ConnectionReturned, HoldsConnection
<1>5. RefusedEnds' /\ Asks'
  <2>1. RefusedEnds'
    BY <1>1, <1>2, <1>7, <1>8, <1>9 DEF Inv, RefusedEnds, TxFromContext
  <2>2. Asks'
    BY DEF Inv, Asks, Top
  <2> QED
    BY <2>1, <2>2
<1>6. AllOrNothing'
  <2> SUFFICES ASSUME NEW c \in Calls, TxFromContext(c.worker)
               PROVE  /\ result[c] = "nil" => VisibleOf(c)' = Statements(c)' /\ c \notin refused'
                      /\ result[c] \in {"none", "error", "panic"} => VisibleOf(c)' = {}
                      /\ result[c] = "unknown" => VisibleOf(c)' \in {{}, Statements(c)'}
    BY DEF AllOrNothing, TxFromContext
  <2>1. VisibleOf(c)' = VisibleOf(c) /\ (c \in refused' <=> c \in refused)
    BY <1>1, <1>2, <1>7, <1>8, <1>9 DEF VisibleOf
  <2>2. result[c] # "none" => Statements(c)' = Statements(c)
    BY <1>1, <1>2, <1>7, <1>8, <1>9 DEF Statements, Inv, TypeOK
  <2> QED
    BY <2>1, <2>2 DEF Inv, AllOrNothing
<1> QED
  BY <1>3, <1>4, <1>5, <1>6 DEF Inv

LEMMA Called ==
  ASSUME Inv, NEW w \in Workers, CallTransactionContext(w) PROVE Inv'
<1> DEFINE c == Call(w, depth[w] + 1)
<1>1. /\ TypeOK /\ depth[w] \in Nat /\ depth[w] < MaxDepth[w] /\ tx[c] = "none"
      /\ depth' = [depth EXCEPT ![w] = @ + 1]
      /\ tx' = [tx EXCEPT ![c] = "begin"]
      /\ UNCHANGED <<done, refused, visible, result, cancelled, asking>>
  BY TransactionAssumption DEF CallTransactionContext, Inv, TypeOK
<1>2. depth[w] + 1 \in 1..MaxDepth[w] /\ MaxDepth[w] \in Nat
  BY <1>1, TransactionAssumption
<1>3. /\ c \in Calls /\ c.worker = w /\ c.depth = depth[w] + 1
      /\ \A d \in Calls : d.worker = w /\ d.depth = depth[w] + 1 => d = c
  BY <1>2, CallShape
<1> HIDE DEF c
<1>4. result[c] = "none"
  BY <1>1, <1>3 DEF Inv, Stack
<1>5. TypeOK'
  <2>1. /\ depth' \in [Workers -> Nat]
        /\ \A v \in Workers : depth'[v] <= MaxDepth[v]
    BY <1>1, <1>2 DEF TypeOK
  <2>2. tx' \in [Calls -> {"none", "begin", "active", "aborted", "ending", "ended"}]
    BY <1>1 DEF TypeOK
  <2> QED
    BY <1>1, <2>1, <2>2 DEF TypeOK
<1>6. Stack'
  <2> SUFFICES ASSUME NEW d \in Calls
               PROVE  /\ d.depth <= depth'[d.worker] => result[d] = "none" /\ tx'[d] # "none"
                      /\ d.depth > depth'[d.worker] => (tx'[d] = "none" <=> result[d] = "none")
    BY <1>1 DEF Stack
  <2>1. d.worker \in Workers /\ d.depth \in Nat /\ depth[d.worker] \in Nat
    BY <1>1, CallShape DEF TypeOK
  <2>2. CASE d = c
    <3>1. tx'[d] = "begin" /\ depth'[d.worker] = depth[w] + 1
      BY <1>1, <1>3, <2>2 DEF TypeOK
    <3> QED
      BY <1>1, <1>3, <1>4, <2>1, <2>2, <3>1
  <2>3. CASE d # c
    <3>1. tx'[d] = tx[d]
      BY <1>1, <1>3, <2>3 DEF TypeOK
    <3>2. d.depth <= depth'[d.worker] <=> d.depth <= depth[d.worker]
      <4>1. CASE d.worker = w
        <5>1. depth'[d.worker] = depth[w] + 1 /\ d.depth # depth[w] + 1
          BY <1>1, <1>3, <2>3, <4>1 DEF TypeOK
        <5> QED
          BY <2>1, <4>1, <5>1
      <4>2. CASE d.worker # w
        BY <1>1, <2>1, <4>2 DEF TypeOK
      <4> QED
        BY <4>1, <4>2
    <3>3. depth'[d.worker] \in Nat
      BY <1>5, <2>1, TransactionAssumption DEF TypeOK
    <3> QED
      BY <2>1, <3>1, <3>2, <3>3 DEF Inv, Stack
  <2> QED
    BY <2>2, <2>3
<1>7. RefusedEnds' /\ EndsWithContext' /\ ConnectionReturned'
  BY <1>1, <1>3, <1>4 DEF Inv, RefusedEnds, EndsWithContext, TxFromContext,
                          ConnectionReturned, HoldsConnection, TypeOK
<1>9. Asks'
  <2> SUFFICES ASSUME NEW v \in asking
               PROVE  depth'[v] > 0 /\ tx'[Top(v)'] \notin {"none", "begin"}
    BY <1>1 DEF Asks
  <2>1. v \in Workers /\ depth[v] > 0 /\ tx[Top(v)] \notin {"none", "begin"}
    BY <1>1, TransactionAssumption DEF Inv, Asks, TypeOK
  <2>2. v # w
    BY <2>1 DEF CallTransactionContext, Running
  <2>3. depth'[v] = depth[v] /\ Top(v)' = Top(v) /\ Top(v) \in Calls
    BY <1>1, <2>1, <2>2, TopCall DEF Top, TypeOK
  <2>4. Top(v) # c
    BY <1>1, <2>1
  <2> QED
    BY <1>1, <2>1, <2>3, <2>4 DEF TypeOK
<1>8. AllOrNothing'
  BY <1>1 DEF Inv, AllOrNothing, TxFromContext, VisibleOf, Statements
<1> QED
  BY <1>5, <1>6, <1>7, <1>8, <1>9 DEF Inv

LEMMA Panicked == ASSUME Inv, NEW w \in Workers, Panic(w) PROVE Inv'
<1>1. /\ TypeOK
      /\ result' = [c \in Calls |->
           IF c.worker = w /\ c.depth <= depth[w] THEN "panic" ELSE result[c]]
      /\ depth' = [depth EXCEPT ![w] = 0]
      /\ UNCHANGED <<tx, done, refused, visible, cancelled, asking>>
      /\ w \notin asking
  BY DEF Panic, Running, Inv
<1>2. TypeOK'
  <2>1. /\ depth' \in [Workers -> Nat]
        /\ \A v \in Workers : depth'[v] <= MaxDepth[v]
    <3>1. depth' \in [Workers -> Nat]
      BY <1>1 DEF TypeOK
    <3>2. ASSUME NEW v \in Workers PROVE depth'[v] <= MaxDepth[v]
      <4>1. /\ depth'[v] = IF v = w THEN 0 ELSE depth[v]
            /\ depth[v] <= MaxDepth[v] /\ MaxDepth[v] \in Nat
        BY <1>1, TransactionAssumption DEF TypeOK
      <4> QED
        BY <4>1
    <3> QED
      BY <3>1, <3>2
  <2>2. result' \in [Calls -> {"none", "nil", "error", "unknown", "panic"}]
    BY <1>1 DEF TypeOK
  <2> QED
    BY <1>1, <2>1, <2>2 DEF TypeOK
<1>3. \A c \in Calls : result'[c] # result[c] => result'[c] = "panic" /\ result[c] = "none"
  BY <1>1 DEF Inv, Stack
<1>4. Stack'
  <2> SUFFICES ASSUME NEW c \in Calls
               PROVE  /\ c.depth <= depth'[c.worker] => result'[c] = "none" /\ tx[c] # "none"
                      /\ c.depth > depth'[c.worker] => (tx[c] = "none" <=> result'[c] = "none")
    BY <1>1 DEF Stack
  <2>1. /\ c.worker \in Workers /\ c.depth \in Nat /\ c.depth > 0
        /\ depth[c.worker] \in Nat
    BY <1>1, CallShape DEF TypeOK
  <2>2. CASE c.worker = w
    <3>1. depth'[c.worker] = 0
      BY <1>1, <2>1, <2>2 DEF TypeOK
    <3>2. CASE c.depth <= depth[w]
      BY <1>1, <2>1, <2>2, <3>1, <3>2 DEF Inv, Stack
    <3>3. CASE c.depth > depth[w]
      BY <1>1, <2>1, <2>2, <3>1, <3>3 DEF Inv, Stack
    <3> QED
      BY <2>1, <2>2, <3>2, <3>3
  <2>3. CASE c.worker # w
    BY <1>1, <2>1, <2>3 DEF Inv, Stack, TypeOK
  <2> QED
    BY <2>2, <2>3
<1>5. RefusedEnds' /\ EndsWithContext' /\ Asks'
  <2>1. RefusedEnds' /\ EndsWithContext'
    BY <1>1 DEF Inv, RefusedEnds, EndsWithContext, TxFromContext
  <2>2. \A v \in asking : depth'[v] = depth[v] /\ Top(v)' = Top(v)
    BY <1>1, TransactionAssumption DEF TypeOK, Top
  <2>3. Asks'
    BY <1>1, <2>2 DEF Inv, Asks
  <2> QED
    BY <2>1, <2>3
<1>6. AllOrNothing'
  <2>1. \A c \in Calls : VisibleOf(c)' = VisibleOf(c) /\ Statements(c)' = Statements(c)
    BY <1>1 DEF VisibleOf, Statements
  <2> QED
    BY <1>1, <1>3, <2>1 DEF Inv, AllOrNothing, TxFromContext
<1>7. ConnectionReturned'
  BY <1>1, <1>3 DEF Inv, ConnectionReturned, HoldsConnection
<1> QED
  BY <1>2, <1>4, <1>5, <1>6, <1>7 DEF Inv

LEMMA Inductive == Inv /\ [Next]_vars => Inv'
<1> SUFFICES ASSUME Inv, [Next]_vars PROVE Inv'
  OBVIOUS
<1>1. ASSUME NEW w \in Workers, CallTransactionContext(w) PROVE Inv'
  BY <1>1, Called
<1>2. ASSUME NEW w \in Workers, BeginSucceeds(w) PROVE Inv'
  <2>1. Top(w) \in Calls /\ result[Top(w)] = "none"
    BY <1>2, TopCall DEF BeginSucceeds, Inv, Stack, TypeOK
  <2>2. Top(w) \notin refused
    BY <1>2 DEF BeginSucceeds, Inv, RefusedEnds
  <2> QED
    BY <1>2, <2>1, <2>2, TransactionMoved DEF BeginSucceeds
<1>3. ASSUME NEW w \in Workers, BeginFails(w) PROVE Inv'
  <2>1. w \notin asking
    BY <1>3 DEF BeginFails, Inv, Asks
  <2> QED
    BY <1>3, <2>1, Returned DEF BeginFails
<1>4. ASSUME NEW w \in Workers, StatementInside(w) PROVE Inv'
  <2>1. /\ Running(w) /\ tx[Top(w)] = "active" /\ Top(w) \in Calls
        /\ result[Top(w)] = "none"
        /\ depth[w] > 0 /\ UNCHANGED <<depth, visible, result, cancelled, asking>>
    BY <1>4, RunningTop DEF StatementInside
  <2>2. CASE /\ done' = [done EXCEPT ![Top(w)] = @ + 1]
             /\ UNCHANGED <<tx, refused>>
    BY <2>1, <2>2, StatementDone
  <2>3. CASE /\ tx' = [tx EXCEPT ![Top(w)] = "aborted"]
             /\ refused' = refused \cup {Top(w)}
             /\ UNCHANGED done
    BY <2>1, <2>3, TransactionMoved
  <2> QED
    BY <1>4, <2>2, <2>3 DEF StatementInside
<1>5. ASSUME NEW w \in Workers, StatementOnPool(w) PROVE Inv'
  <2>1. /\ depth[w] > 0 /\ tx[Top(w)] \notin {"none", "begin"}
        /\ ~TxFromContext(w)
    BY <1>5 DEF StatementOnPool, Inv, Asks, TypeOK, TxFromContext
  <2> QED
    BY <1>5, <2>1, StatementDone DEF StatementOnPool
<1>6. ASSUME NEW w \in Workers, FnSucceeds(w) PROVE Inv'
  <2>1. depth[w] > 0 /\ w \notin asking /\ UNCHANGED <<done, refused, cancelled, asking>>
    BY <1>6 DEF FnSucceeds, Running
  <2>2. CASE /\ tx[Top(w)] = "active"
             /\ visible' = visible \cup Statements(Top(w))
             /\ Return(w, "nil", "ended")
    <3>1. TxFromContext(w) => Top(w) \notin refused
      BY <2>1, <2>2, TopCall DEF Inv, RefusedEnds
    <3> QED
      BY <2>1, <2>2, <3>1, Returned
  <2>3. CASE /\ visible' \in {visible, visible \cup Statements(Top(w))}
             /\ Return(w, "unknown", "ended")
    BY <2>1, <2>3, Returned
  <2>4. CASE UNCHANGED visible /\ Return(w, "error", "ended")
    BY <2>1, <2>4, Returned
  <2>5. CASE w \in cancelled /\ UNCHANGED visible /\ Return(w, "error", tx[Top(w)])
    <3>1. tx[Top(w)] \notin {"none", "begin"}
      BY <1>6 DEF FnSucceeds, Running
    <3> QED
      BY <2>1, <2>5, <3>1, Returned
  <2> QED
    BY <1>6, <2>2, <2>3, <2>4, <2>5 DEF FnSucceeds
<1>7. ASSUME NEW w \in Workers, FnFails(w) PROVE Inv'
  <2>1. /\ depth[w] > 0 /\ w \notin asking
        /\ UNCHANGED <<done, refused, visible, cancelled, asking>>
    BY <1>7 DEF FnFails, Running
  <2>2. CASE tx[Top(w)] = "ending"
    <3>1. w \in cancelled /\ Return(w, "error", tx[Top(w)])
      BY <1>7, <2>1, <2>2, TopCall DEF FnFails, Inv, EndsWithContext
    <3> QED
      BY <2>1, <2>2, <3>1, Returned
  <2>3. CASE tx[Top(w)] # "ending"
    <3>1. Return(w, "error", "ended")
      BY <1>7, <2>3 DEF FnFails
    <3> QED
      BY <2>1, <3>1, Returned
  <2> QED
    BY <2>2, <2>3
<1>8. ASSUME NEW w \in Workers, Panic(w) PROVE Inv'
  BY <1>8, Panicked
<1>9. ASSUME NEW w \in Workers, Cancel(w) PROVE Inv'
  BY <1>9 DEF Cancel, Inv, TypeOK, Stack, RefusedEnds, EndsWithContext, Asks, Top, AllOrNothing,
              TxFromContext, VisibleOf, Statements, ConnectionReturned, HoldsConnection
<1>10. ASSUME NEW c \in Calls, RollbackOnCancel(c) PROVE Inv'
  BY <1>10, TransactionMoved DEF RollbackOnCancel
<1>13. ASSUME NEW c \in Calls, RolledBack(c) PROVE Inv'
  BY <1>13, TransactionMoved DEF RolledBack
<1>12. ASSUME NEW w \in Workers, AskPool(w) PROVE Inv'
  <2>1. /\ Running(w) /\ w \in Foreign /\ asking' = asking \cup {w}
        /\ UNCHANGED <<depth, tx, done, refused, visible, result, cancelled>>
    BY <1>12 DEF AskPool, TxFromContext
  <2>2. TypeOK' /\ Stack' /\ RefusedEnds' /\ EndsWithContext' /\ ConnectionReturned'
    BY <2>1 DEF Inv, TypeOK, Stack, RefusedEnds, EndsWithContext,
                ConnectionReturned, HoldsConnection
  <2>3. Asks'
    BY <2>1 DEF Inv, Asks, Running, Top
  <2>4. AllOrNothing'
    BY <2>1 DEF Inv, AllOrNothing, VisibleOf, Statements
  <2> QED
    BY <2>2, <2>3, <2>4 DEF Inv
<1>11. CASE UNCHANGED vars
  BY <1>11 DEF vars, Inv, TypeOK, Stack, RefusedEnds, EndsWithContext, Asks, Top, AllOrNothing,
               TxFromContext, VisibleOf, Statements, ConnectionReturned, HoldsConnection
<1> QED
  BY <1>1, <1>2, <1>3, <1>4, <1>5, <1>6, <1>7, <1>8, <1>9, <1>10, <1>11,
     <1>12, <1>13 DEF Next, Step

LEMMA Always == Spec => []Inv
  BY Initially, Inductive, PTL DEF Spec

(* The state keeps its type. *)
THEOREM TypeCorrect == Spec => []TypeOK
<1>1. Inv => TypeOK
  BY DEF Inv
<1> QED
  BY <1>1, Always, PTL

(* connection.go:158-184: a call that returned nil has committed everything *)
(* the statements of its function did, and the server had refused none of   *)
(* them; one that returned an error, panicked or still runs has left        *)
(* nothing; a commit without an answer all or nothing.  For any nesting and *)
(* any number of workers, whenever their contexts are done.                 *)
THEOREM AllOrNothingHolds == Spec => []AllOrNothing
<1>1. Inv => AllOrNothing
  BY DEF Inv
<1> QED
  BY <1>1, Always, PTL

(* connection.go:169-183: after every way back from TransactionContext but  *)
(* a panic the connection is in the pool again, or the context is done and  *)
(* database/sql has it to roll back.                                        *)
THEOREM ConnectionGivenBack == Spec => []ConnectionReturned
<1>1. Inv => ConnectionReturned
  BY DEF Inv
<1> QED
  BY <1>1, Always, PTL

LEMMA CallsFinite == IsFiniteSet(Calls)
<1> DEFINE CallsOf(w) == [worker : {w}, depth : 1..MaxDepth[w]]
           All == {CallsOf(w) : w \in Workers}
<1>1. ASSUME NEW w \in Workers PROVE IsFiniteSet(CallsOf(w))
  <2>1. MaxDepth[w] \in Nat
    BY TransactionAssumption
  <2>2. IsFiniteSet(1..MaxDepth[w])
    BY <2>1, FS_Interval
  <2> DEFINE f == [d \in 1..MaxDepth[w] |-> Call(w, d)]
  <2>3. f \in Surjection(1..MaxDepth[w], CallsOf(w))
    BY DEF Surjection, Call
  <2> QED
    BY <2>2, <2>3, FS_Surjection
<1>2. IsFiniteSet(All)
  <2> DEFINE f == [w \in Workers |-> CallsOf(w)]
  <2>1. f \in Surjection(Workers, All)
    BY DEF Surjection
  <2> QED
    BY <2>1, TransactionAssumption, FS_Surjection
<1>3. \A C \in All : IsFiniteSet(C)
  BY <1>1
<1>4. Calls = UNION All
  BY DEF Calls
<1> QED
  BY <1>2, <1>3, <1>4, FS_UNION

(* connection.go:80, 141-162: with a pool that suffices, those who wait for *)
(* a connection never all wait for each other; for any workers, any nesting *)
(* and any statements outside of the transactions.                          *)
THEOREM PoolAlwaysServes == ASSUME PoolSuffices PROVE Spec => []PoolServes
<1>1. ASSUME Inv PROVE PoolServes
  <2> SUFFICES ASSUME ~ConnectionFree,
                      \A c \in InUse : /\ Waits(c.worker) /\ ~Leaked(c)
                                       /\ c.worker \notin cancelled
               PROVE  FALSE
    BY DEF PoolServes
  <2>1. ASSUME NEW c \in InUse PROVE c \in HeldWhileWaiting
    <3>1. /\ c \in Calls /\ HoldsConnection(c)
          /\ c.worker \in Workers /\ c.depth \in Nat /\ MaxDepth[c.worker] \in Nat
          /\ depth[c.worker] \in Nat /\ depth[c.worker] <= MaxDepth[c.worker]
          /\ ~(c.depth > depth[c.worker]) /\ c.depth > 0
      BY <1>1, CallShape, TransactionAssumption DEF InUse, Leaked, Inv, TypeOK
    <3>2. CASE c.worker \in asking
      BY <1>1, <3>1, <3>2 DEF HeldWhileWaiting, Inv, TypeOK
    <3>3. CASE tx[Top(c.worker)] = "begin"
      <4>1. c # Top(c.worker)
        BY <3>1, <3>3 DEF HoldsConnection
      <4>2. c.depth < depth[c.worker]
        BY <1>1, <3>1, <4>1, TopCall DEF Inv
      <4> QED
        BY <3>1, <4>2 DEF HeldWhileWaiting
    <3> QED
      BY <3>2, <3>3 DEF Waits
  <2>2. IsFiniteSet(HeldWhileWaiting)
    BY CallsFinite, FS_Subset DEF HeldWhileWaiting
  <2>3. /\ IsFiniteSet(InUse)
        /\ Cardinality(InUse) <= Cardinality(HeldWhileWaiting)
    BY <2>1, <2>2, FS_Subset
  <2>4. Cardinality(InUse) \in Nat /\ Cardinality(HeldWhileWaiting) \in Nat
    BY <2>2, <2>3, FS_CardinalityType
  <2> QED
    BY <2>3, <2>4, TransactionAssumption DEF PoolSuffices, ConnectionFree
<1> QED
  BY <1>1, Always, PTL
=============================================================================
