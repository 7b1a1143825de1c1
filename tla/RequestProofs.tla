---------------------------- MODULE RequestProofs ---------------------------
(***************************************************************************)
(* Proofs about Request and Middleware, for any options, routes, lists of   *)
(* middlewares, statuses and number of writes.                              *)
(***************************************************************************)
EXTENDS Request, FiniteSetTheorems, TLAPS

(* The handler has set no status after a body it wrote without one, or       *)
(* TimeoutHandler puts the two in order.                                     *)
StatusFirst == HasTimeoutHandler \/ ~(bodyFirst /\ rw.wroteHeader)

(* While there is a TimeoutHandler, the handler does not reach the server's  *)
(* ResponseWriter; without one, it has returned when the request is logged.  *)
Layers ==
  /\ HasTimeoutHandler /\ phase = "serving" => rw = newResponseWriter
  /\ ~HasTimeoutHandler /\ phase # "serving" => handler # "running"
  /\ phase = "options" =>
       /\ handler = "none" /\ rw = newResponseWriter /\ ~bodyFirst
       /\ writes = 0 /\ buffer = NoStatus
  /\ handler = "none" => phase = "options"

(* What was recorded is what was sent, and 200 while nothing was; only a     *)
(* body can have been sent behind the back of the responseWriter.            *)
Agree ==
  /\ rw.sent = NoStatus => rw.status = StatusOK /\ ~rw.wroteHeader
  /\ rw.sent # NoStatus => rw.status = rw.sent
  /\ phase = "finished" => rw.sent # NoStatus
  /\ ~HasTimeoutHandler /\ ~bodyFirst /\ phase = "serving" =>
       /\ handler = "running" /\ writes = 0 => rw.sent = NoStatus
       /\ rw.sent # NoStatus => rw.wroteHeader
       /\ handler = "running" /\ writes > 0 => rw.wroteHeader

BufferFinal == buffer # NoStatus => ~Informational(buffer)

Final == \A code \in Statuses : ~Informational(code)

Inv == /\ TypeOK
       /\ Layers
       /\ Final => BufferFinal
       /\ Final /\ StatusFirst => Agree

USE DEF server, route, NoStatus, StatusOK, StatusServiceUnavailable

LEMMA Fresh ==
  /\ newResponseWriter \in Responses
  /\ newResponseWriter.status = StatusOK
  /\ newResponseWriter.sent = NoStatus
  /\ ~newResponseWriter.wroteHeader
  BY DEF newResponseWriter, Responses, Codes

LEMMA Initially == Init => Inv
<1> SUFFICES ASSUME Init PROVE Inv
  OBVIOUS
<1>1. TypeOK
  <2>1. MaxWrites \in Nat /\ rw \in Responses /\ timeout \in Nat
        /\ own \in Seq(Kinds) /\ Len(options) <= MaxOptions
        /\ options \in Seq(Options)
    BY RequestAssumption, Fresh DEF Init
  <2>8. settings \in Settings
    BY DEF Init, Settings, defaultSettings, StatusInternalServerError
  <2>9. requestID \in BOOLEAN
    BY DEF Init
  <2>2. /\ phase = "options" /\ handler = "none" /\ writes = 0
        /\ bodyFirst = FALSE /\ buffer = NoStatus /\ expired = FALSE
    BY DEF Init
  <2>3. bodyFirst \in BOOLEAN
    BY <2>2
  <2>4. expired \in BOOLEAN
    BY <2>2
  <2>5. buffer \in Codes \union {NoStatus}
    BY <2>2
  <2>6. writes \in 0..MaxWrites
    BY <2>1, <2>2
  <2>7. /\ phase \in {"options", "serving", "logged", "finished", "aborted"}
        /\ handler \in {"none", "running", "done", "failed", "panicked"}
    BY <2>2
  <2> QED
    BY <2>1, <2>3, <2>4, <2>5, <2>6, <2>7, <2>8, <2>9 DEF TypeOK
<1>2. Layers
  BY DEF Init, Layers
<1>3. BufferFinal
  BY DEF Init, BufferFinal
<1>4. Agree
  BY Fresh DEF Init, Agree
<1> QED
  BY <1>1, <1>2, <1>3, <1>4 DEF Inv

(* What the two calls do to a response.                                      *)
LEMMA Written ==
  ASSUME NEW w \in Responses
  PROVE  /\ ImplicitOK(w) \in Responses
         /\ ImplicitOK(w).status = w.status
         /\ ImplicitOK(w).wroteHeader = w.wroteHeader
         /\ ImplicitOK(w).sent = IF w.sent = NoStatus THEN StatusOK ELSE w.sent
         /\ Write(w) \in Responses
         /\ Write(w).status = w.status /\ Write(w).wroteHeader = w.wroteHeader
         /\ Write(w).sent = IF w.sent = NoStatus THEN StatusOK ELSE w.sent
<1>1. /\ ImplicitOK(w) \in Responses
      /\ ImplicitOK(w).status = w.status
      /\ ImplicitOK(w).wroteHeader = w.wroteHeader
      /\ ImplicitOK(w).sent = IF w.sent = NoStatus THEN StatusOK ELSE w.sent
  BY DEF ImplicitOK, FirstStatus, Informational, Responses, Codes
<1> QED
  BY <1>1 DEF Write, Responses

LEMMA HeaderWritten ==
  ASSUME NEW w \in Responses, NEW code \in Codes
  PROVE  /\ WriteHeader(w, code) \in Responses
         /\ WriteHeader(w, code).wroteHeader
         /\ WriteHeader(w, code).status = IF w.wroteHeader THEN w.status ELSE code
         /\ ~Informational(code) =>
              WriteHeader(w, code).sent = IF w.sent = NoStatus THEN code ELSE w.sent
  BY DEF WriteHeader, FirstStatus, Responses, Codes

LEMMA StatusSet ==
  ASSUME Inv, NEW code \in Codes, Final => ~Informational(code),
         handler = "running", SetStatus(code),
         UNCHANGED <<route, phase, bodyFirst, expired>>,
         writes' \in 0..MaxWrites,
         \/ handler' \in {"done", "failed"} /\ writes' = writes
         \/ handler' = handler /\ writes' = writes + 1
  PROVE  Inv'
<1> USE RequestAssumption DEF Inv, TypeOK
<1>1. HasTimeoutHandler' = HasTimeoutHandler
  BY DEF HasTimeoutHandler
<1>2. CASE HasTimeoutHandler
  <2>1. /\ rw' = rw
        /\ buffer' = buffer \/ buffer' = code
    BY <1>2 DEF SetStatus
  <2>2. TypeOK'
    BY <2>1
  <2>3. Layers'
    BY <1>1, <1>2, <2>1 DEF Layers, newResponseWriter
  <2>4. Final => BufferFinal'
    BY <2>1 DEF BufferFinal, Codes
  <2>5. Final /\ StatusFirst' => Agree'
    BY <1>1, <1>2, <2>1 DEF Agree, StatusFirst
  <2> QED
    BY <2>2, <2>3, <2>4, <2>5
<1>3. CASE ~HasTimeoutHandler
  <2>1. rw' = WriteHeader(rw, code) /\ buffer' = buffer
    BY <1>3 DEF SetStatus
  <2>2. TypeOK'
    BY <2>1, HeaderWritten
  <2>3. phase = "serving"
    BY <1>3 DEF Layers
  <2>4. Layers'
    BY <1>1, <1>3, <2>3 DEF Layers
  <2>5. Final => BufferFinal'
    BY <2>1 DEF BufferFinal
  <2>6. ASSUME Final, StatusFirst' PROVE Agree'
    <3>1. ~bodyFirst /\ Agree
      <4>1. rw'.wroteHeader /\ UNCHANGED bodyFirst
        BY <2>1, HeaderWritten
      <4>2. ~bodyFirst
        BY <1>1, <1>3, <2>6, <4>1 DEF StatusFirst
      <4> QED
        BY <2>6, <4>2 DEF StatusFirst
    <3>2. ~Informational(code)
      BY <2>6
    <3>3. /\ rw'.wroteHeader
          /\ rw'.status = IF rw.wroteHeader THEN rw.status ELSE code
          /\ rw'.sent = IF rw.sent = NoStatus THEN code ELSE rw.sent
      BY <2>1, <3>2, HeaderWritten
    <3>4. rw.sent # NoStatus => rw.wroteHeader /\ rw.status = rw.sent
      BY <1>3, <2>3, <3>1 DEF Agree
    <3>5. rw.sent = NoStatus => ~rw.wroteHeader
      BY <3>1 DEF Agree
    <3>6. rw'.sent # NoStatus /\ rw'.status = rw'.sent
      BY <3>2, <3>3, <3>4, <3>5 DEF Codes
    <3>7. handler' = "running" => writes' # 0
      OBVIOUS
    <3> QED
      BY <1>1, <1>3, <3>3, <3>6, <3>7 DEF Agree
  <2> QED
    BY <1>1, <2>2, <2>4, <2>5, <2>6 DEF StatusFirst
<1> QED
  BY <1>2, <1>3

LEMMA FinalCodes == \A c \in 200..599 : c \in Codes /\ ~Informational(c) /\ c # NoStatus
  BY DEF Codes, Informational

(* The components of settings, one at a time. *)
LEMMA SettingsTyped ==
  settings \in Settings =>
    /\ settings.globalMiddlewares \in Seq(Kinds)
    /\ settings.errorHandler \in 200..599
    /\ settings.routes \in Seq(RouteFields)
  BY DEF Settings

LEMMA ErrorHandlerFinal ==
  Inv => /\ settings.errorHandler \in Codes /\ ~Informational(settings.errorHandler)
         /\ settings.errorHandler # NoStatus
<1> SUFFICES ASSUME Inv
             PROVE  /\ settings.errorHandler \in Codes
                    /\ ~Informational(settings.errorHandler)
                    /\ settings.errorHandler # NoStatus
  OBVIOUS
<1>1. settings \in Settings
  BY DEF Inv, TypeOK
<1>2. settings.errorHandler \in 200..599
  BY <1>1, SettingsTyped
<1> QED
  BY <1>2, FinalCodes

LEMMA SettingsChanged ==
  settings \in Settings =>
    /\ \A m \in Seq(Kinds) : [settings EXCEPT !.globalMiddlewares = m] \in Settings
    /\ \A code \in 200..599 : [settings EXCEPT !.errorHandler = code] \in Settings
    /\ \A rs \in Seq(RouteFields) : [settings EXCEPT !.routes = rs] \in Settings
<1> SUFFICES ASSUME settings \in Settings
             PROVE  /\ \A m \in Seq(Kinds) :
                         [settings EXCEPT !.globalMiddlewares = m] \in Settings
                    /\ \A code \in 200..599 :
                         [settings EXCEPT !.errorHandler = code] \in Settings
                    /\ \A rs \in Seq(RouteFields) :
                         [settings EXCEPT !.routes = rs] \in Settings
  OBVIOUS
<1>1. \A m \in Seq(Kinds) : [settings EXCEPT !.globalMiddlewares = m] \in Settings
  BY DEF Settings
<1>2. \A code \in 200..599 : [settings EXCEPT !.errorHandler = code] \in Settings
  BY DEF Settings
<1>3. \A rs \in Seq(RouteFields) : [settings EXCEPT !.routes = rs] \in Settings
  BY DEF Settings
<1> QED
  BY <1>1, <1>2, <1>3

(* The options, and the request that follows them. *)
LEMMA OptionGiven ==
  ASSUME Inv, NEW option \in Options, Given(option), settings' \in Settings
  PROVE  Inv'
<1>1. /\ phase = "options" /\ Len(options') <= MaxOptions
      /\ options' \in Seq(Options)
      /\ UNCHANGED <<timeout, own, requestID, phase, handler, writes, bodyFirst,
                     buffer, expired, rw>>
  <2>1. options \in Seq(Options) /\ options' = Append(options, option)
    BY DEF Inv, TypeOK, Given
  <2>2. options' \in Seq(Options) /\ Len(options') = Len(options) + 1
    BY <2>1
  <2> QED
    BY <2>2, RequestAssumption DEF Given
<1>2. TypeOK'
  BY <1>1 DEF Inv, TypeOK
<1>3. HasTimeoutHandler' = HasTimeoutHandler
  BY <1>1 DEF HasTimeoutHandler
<1>4. Layers'
  BY <1>1, <1>3 DEF Inv, Layers, newResponseWriter
<1>5. Final => BufferFinal'
  BY <1>1 DEF Inv, BufferFinal
<1>6. Final /\ StatusFirst' => Agree'
  <2>1. (StatusFirst' <=> StatusFirst) /\ (Agree' <=> Agree)
    BY <1>1, <1>3 DEF StatusFirst, Agree
  <2> QED
    BY <2>1 DEF Inv
<1> QED
  BY <1>2, <1>4, <1>5, <1>6 DEF Inv

LEMMA OptionsTyped ==
  /\ \A middlewares \in Chains :
       [to |-> "globalMiddlewares", middlewares |-> middlewares] \in Options
  /\ \A status \in ErrorStatuses :
       [to |-> "errorHandler", status |-> status] \in Options
  /\ \A r \in Routes : [to |-> "routes", route |-> r] \in Options
  BY RequestAssumption DEF Options

LEMMA Configured == ASSUME Inv, Configure PROVE Inv'
<1> USE RequestAssumption
<1>1. settings \in Settings
  BY DEF Inv, TypeOK
<1>2. ASSUME NEW middlewares \in Chains, WithMiddlewares(middlewares) PROVE Inv'
  <2>1. settings' \in Settings
    <3>1. middlewares \in Seq(Kinds)
      BY <1>2
    <3>2. settings.globalMiddlewares \o middlewares \in Seq(Kinds)
      BY <1>1, <3>1, SettingsTyped
    <3> QED
      BY <1>1, <1>2, <3>2, SettingsChanged DEF WithMiddlewares
  <2> QED
    BY <1>2, <2>1, OptionGiven, OptionsTyped DEF WithMiddlewares
<1>3. ASSUME NEW status \in ErrorStatuses, WithErrorHandler(status) PROVE Inv'
  <2>1. settings' \in Settings
    <3>1. status \in 200..599
      BY <1>3
    <3> QED
      BY <1>1, <1>3, <3>1, SettingsChanged DEF WithErrorHandler
  <2> QED
    BY <1>3, <2>1, OptionGiven, OptionsTyped DEF WithErrorHandler
<1>4. ASSUME NEW r \in Routes, WithRoutes(r) PROVE Inv'
  <2>1. settings' \in Settings
    <3>1. r \in RouteFields
      BY <1>4
    <3>2. Append(settings.routes, r) \in Seq(RouteFields)
      BY <1>1, <3>1, SettingsTyped
    <3> QED
      BY <1>1, <1>4, <3>2, SettingsChanged DEF WithRoutes
  <2> QED
    BY <1>4, <2>1, OptionGiven, OptionsTyped DEF WithRoutes
<1>5. CASE Arrive
  <2>1. /\ phase = "options" /\ phase' = "serving" /\ handler' = "running"
        /\ UNCHANGED <<server, writes, bodyFirst, buffer, expired, rw>>
    BY <1>5 DEF Arrive
  <2>2. timeout' \in Nat /\ own' \in Seq(Kinds) /\ requestID' \in BOOLEAN
    <3>1. PICK i \in DOMAIN settings.routes :
            /\ timeout' = settings.routes[i].Timeout
            /\ own' = settings.routes[i].Middlewares
      BY <1>5 DEF Arrive
    <3>2. settings.routes[i] \in RouteFields
      BY <1>1, <3>1, SettingsTyped
    <3> QED
      BY <1>5, <3>1, <3>2 DEF Arrive, RouteFields
  <2>3. TypeOK'
    BY <2>1, <2>2 DEF Inv, TypeOK
  <2>4. /\ rw' = newResponseWriter /\ ~bodyFirst' /\ writes' = 0
        /\ buffer' = NoStatus
    BY <2>1 DEF Inv, Layers
  <2>5. Layers'
    BY <2>1, <2>4 DEF Layers, newResponseWriter
  <2>6. BufferFinal' /\ Agree'
    BY <2>1, <2>4, Fresh DEF BufferFinal, Agree
  <2> QED
    BY <2>3, <2>5, <2>6 DEF Inv
<1> QED
  BY <1>2, <1>3, <1>4, <1>5 DEF Configure

LEMMA Inductive == Inv /\ [Next]_vars => Inv'
<1> SUFFICES ASSUME Inv, [Next]_vars PROVE Inv'
  OBVIOUS
<1> USE RequestAssumption
<1>1. ASSUME NEW code \in Statuses, HandlerSetsStatus(code) PROVE Inv'
  <2>1. code \in Codes /\ (Final => ~Informational(code))
    BY DEF Final, Codes
  <2>2. /\ handler = "running" /\ SetStatus(code)
        /\ UNCHANGED <<route, phase, bodyFirst, expired>>
        /\ handler' = handler /\ writes' = writes + 1
    BY <1>1 DEF HandlerSetsStatus
  <2>3. writes' \in 0..MaxWrites
    BY <1>1 DEF HandlerSetsStatus, Inv, TypeOK
  <2> QED
    BY <2>1, <2>2, <2>3, StatusSet
<1>2. CASE HandlerFails
  <2>1. settings.errorHandler \in Codes /\ ~Informational(settings.errorHandler)
    BY ErrorHandlerFinal
  <2>2. /\ handler = "running" /\ SetStatus(settings.errorHandler)
        /\ UNCHANGED <<route, phase, bodyFirst, expired>>
        /\ handler' = "failed" /\ writes' = writes
    BY <1>2 DEF HandlerFails
  <2>3. writes' \in 0..MaxWrites
    BY <2>2 DEF Inv, TypeOK
  <2> QED
    BY <2>1, <2>2, <2>3, StatusSet
<1>3. CASE HandlerWritesBody
  <2> USE DEF Inv, TypeOK
  <2>1. /\ handler = "running" /\ handler' = "running"
        /\ UNCHANGED <<route, phase, expired>>
        /\ writes' = writes + 1 /\ writes' \in 0..MaxWrites
        /\ bodyFirst' = (bodyFirst \/ writes = 0)
    BY <1>3 DEF HandlerWritesBody
  <2>2. HasTimeoutHandler' = HasTimeoutHandler
    BY <2>1 DEF HasTimeoutHandler
  <2>3. CASE HasTimeoutHandler
    <3>1. rw' = rw /\ (buffer' = buffer \/ buffer' = StatusOK)
      BY <1>3, <2>3 DEF HandlerWritesBody, WriteBody
    <3>2. TypeOK'
      <4>1. bodyFirst' \in BOOLEAN
        BY <2>1
      <4>2. buffer' \in Codes \union {NoStatus}
        <5>1. StatusOK \in Codes
          BY DEF Codes
        <5>2. buffer \in Codes \union {NoStatus}
          OBVIOUS
        <5> QED
          BY <3>1, <5>1, <5>2
      <4> QED
        BY <2>1, <3>1, <4>1, <4>2
    <3>3. Layers'
      BY <2>1, <2>2, <2>3, <3>1 DEF Layers, newResponseWriter
    <3>4. Final => BufferFinal'
      BY <3>1 DEF BufferFinal, Informational
    <3>5. Final /\ StatusFirst' => Agree'
      BY <2>1, <2>2, <2>3, <3>1 DEF Agree, StatusFirst
    <3> QED
      BY <3>2, <3>3, <3>4, <3>5
  <2>4. CASE ~HasTimeoutHandler
    <3>1. rw' = Write(rw) /\ buffer' = buffer
      BY <1>3, <2>4 DEF HandlerWritesBody, WriteBody
    <3>2. TypeOK'
      <4>1. rw' \in Responses
        BY <3>1, Written
      <4>2. bodyFirst' \in BOOLEAN
        BY <2>1
      <4> QED
        BY <2>1, <3>1, <4>1, <4>2
    <3>3. phase = "serving"
      BY <2>1, <2>4 DEF Layers
    <3>4. Layers'
      BY <2>1, <2>2, <2>4, <3>3 DEF Layers
    <3>5. ASSUME Final, StatusFirst' PROVE Agree'
      <4>1. Agree
        <5>1. rw'.wroteHeader = rw.wroteHeader
          BY <3>1, Written
        <5>2. StatusFirst
          BY <2>1, <2>2, <3>5, <5>1 DEF StatusFirst
        <5> QED
          BY <3>5, <5>2
      <4>2. /\ rw'.status = rw.status /\ rw'.wroteHeader = rw.wroteHeader
            /\ rw'.sent = IF rw.sent = NoStatus THEN StatusOK ELSE rw.sent
        BY <3>1, Written
      <4>3. rw'.sent # NoStatus /\ rw'.status = rw'.sent
        BY <4>1, <4>2 DEF Agree
      <4>4. ~bodyFirst' => rw'.wroteHeader
        <5>1. ~bodyFirst' => ~bodyFirst /\ writes # 0
          BY <2>1
        <5>2. ~bodyFirst /\ writes # 0 => rw.wroteHeader
          BY <2>1, <2>4, <3>3, <4>1 DEF Agree
        <5> QED
          BY <4>2, <5>1, <5>2
      <4> QED
        BY <2>1, <4>3, <4>4 DEF Agree
    <3> QED
      BY <2>2, <3>1, <3>2, <3>4, <3>5 DEF StatusFirst, BufferFinal
  <2> QED
    BY <2>3, <2>4
<1>4. CASE HandlerReturns \/ HandlerPanics
  BY <1>4 DEF HandlerReturns, HandlerPanics, Inv, TypeOK, Layers, Agree,
              StatusFirst, BufferFinal, HasTimeoutHandler, newResponseWriter
<1>5. CASE ServeReturns
  <2> USE DEF Inv, TypeOK
  <2>1. /\ phase' = "logged" /\ phase = "serving" /\ handler \in {"done", "failed"}
        /\ UNCHANGED <<route, handler, writes, bodyFirst, buffer, expired>>
    BY <1>5 DEF ServeReturns
  <2>2. HasTimeoutHandler' = HasTimeoutHandler
    BY <2>1 DEF HasTimeoutHandler
  <2>3. Layers'
    BY <2>1, <2>2 DEF Layers
  <2>4. CASE ~HasTimeoutHandler
    <3>1. rw' = rw
      BY <1>5, <2>4 DEF ServeReturns
    <3> QED
      BY <2>1, <2>2, <2>3, <3>1 DEF Agree, StatusFirst, BufferFinal
  <2>5. CASE HasTimeoutHandler
    <3> DEFINE code == IF buffer = NoStatus THEN StatusOK ELSE buffer
    <3>1. code \in Codes /\ (Final => ~Informational(code))
      BY DEF BufferFinal, Codes, Informational
    <3>2. rw = newResponseWriter
      BY <2>1, <2>5 DEF Layers
    <3>3. rw' = Write(WriteHeader(rw, code))
      BY <1>5, <2>5 DEF ServeReturns
    <3>4. /\ rw' \in Responses
          /\ Final => rw'.sent = code /\ rw'.status = code
      <4> HIDE DEF code
      <4>1. WriteHeader(rw, code) \in Responses
        BY <3>1, HeaderWritten
      <4>2. /\ WriteHeader(rw, code).status = code
            /\ Final => WriteHeader(rw, code).sent = code
        BY <3>1, <3>2, Fresh, HeaderWritten
      <4>3. code # NoStatus
        BY <3>1 DEF Codes
      <4> QED
        BY <3>1, <3>3, <4>1, <4>2, <4>3, Written
    <3>5. Final => rw'.sent # NoStatus /\ rw'.sent = rw'.status
      BY <3>1, <3>4
    <3>6. TypeOK'
      BY <2>1, <3>4
    <3>7. Final => Agree'
      BY <2>1, <3>5 DEF Agree
    <3> QED
      BY <2>1, <2>3, <3>6, <3>7 DEF BufferFinal
  <2> QED
    BY <2>4, <2>5
<1>6. CASE Expire
  <2> USE DEF Inv, TypeOK
  <2>1. /\ phase' = "logged" /\ phase = "serving" /\ HasTimeoutHandler
        /\ expired' = TRUE
        /\ rw' = Write(WriteHeader(rw, StatusServiceUnavailable))
        /\ UNCHANGED <<route, handler, writes, bodyFirst, buffer>>
    BY <1>6 DEF Expire
  <2>2. HasTimeoutHandler'
    BY <2>1 DEF HasTimeoutHandler
  <2>3. rw = newResponseWriter
    BY <2>1 DEF Layers
  <2>4. rw' \in Responses /\ rw'.status = 503 /\ rw'.sent = 503
    <3>1. 503 \in Codes /\ ~Informational(503)
      BY DEF Codes, Informational
    <3>2. /\ WriteHeader(rw, 503) \in Responses
          /\ WriteHeader(rw, 503).status = 503
          /\ WriteHeader(rw, 503).sent = 503
      BY <2>3, <3>1, Fresh, HeaderWritten
    <3> QED
      BY <2>1, <3>2, Written
  <2>5. Layers' /\ Agree'
    BY <2>1, <2>2, <2>4 DEF Layers, Agree
  <2>6. TypeOK'
    BY <2>1, <2>4
  <2> QED
    BY <2>1, <2>5, <2>6 DEF BufferFinal
<1>7. CASE FinishRequest
  <2> USE DEF Inv, TypeOK
  <2>1. /\ phase' = "finished" /\ phase = "logged" /\ rw' = ImplicitOK(rw)
        /\ UNCHANGED <<route, handler, writes, bodyFirst, buffer, expired>>
    BY <1>7 DEF FinishRequest
  <2>2. HasTimeoutHandler' = HasTimeoutHandler
    BY <2>1 DEF HasTimeoutHandler
  <2>3. /\ rw' \in Responses
        /\ rw'.status = rw.status /\ rw'.wroteHeader = rw.wroteHeader
        /\ rw'.sent = IF rw.sent = NoStatus THEN StatusOK ELSE rw.sent
    BY <2>1, Written
  <2>4. Layers'
    BY <2>1, <2>2 DEF Layers
  <2>5. Agree => Agree'
    BY <2>1, <2>3 DEF Agree
  <2> QED
    BY <2>1, <2>2, <2>3, <2>4, <2>5 DEF BufferFinal, StatusFirst
<1>8. CASE Abort
  BY <1>8 DEF Abort, Inv, TypeOK, Layers, Agree, StatusFirst, BufferFinal,
              HasTimeoutHandler, newResponseWriter
<1>9. CASE UNCHANGED vars
  BY <1>9 DEF vars, Inv, TypeOK, Layers, Agree, StatusFirst, BufferFinal,
              HasTimeoutHandler, newResponseWriter
<1> QED
  BY <1>1, <1>2, <1>3, <1>4, <1>5, <1>6, <1>7, <1>8, <1>9, Configured
     DEF Next, Handle, Serve

LEMMA Always == Spec => []Inv
  BY Initially, Inductive, PTL DEF Spec

(* The state keeps its type.                                                 *)
THEOREM TypeCorrect == Spec => []TypeOK
<1>1. Inv => TypeOK
  BY DEF Inv
<1> QED
  BY <1>1, Always, PTL

(* server.go:280-281: the status in the metrics is the one the client gets,  *)
(* whatever the handler does on a route with a Timeout, and on the others    *)
(* unless it sets a status late; handlers set no informational status.       *)
THEOREM StatusRecorded ==
  ASSUME \A code \in Statuses : ~Informational(code)
  PROVE  Spec => []RecordedUnlessLate
<1>1. ASSUME Inv PROVE RecordedUnlessLate
  <2> SUFFICES ASSUME ~StatusTooLate, phase = "finished"
               PROVE  rw.status = rw.sent
    BY DEF RecordedUnlessLate, RecordedStatus
  <2>1. timeout = 0 \/ timeout > 0
    BY <1>1 DEF Inv, TypeOK
  <2>2. StatusFirst /\ Final
    BY <2>1 DEF StatusFirst, StatusTooLate, HasTimeoutHandler, Final
  <2> QED
    BY <1>1, <2>2 DEF Inv, Agree
<1> QED
  BY <1>1, Always, PTL

(* Once the request is reported, no handler changes the response.            *)
THEOREM LateHandlersSilenced == Spec => LateHandlerIsSilent
<1>1. ASSUME Inv, Next, phase # "serving", phase' = phase PROVE UNCHANGED rw
  <2>1. \A code : handler = "running" /\ SetStatus(code) => UNCHANGED rw
    BY <1>1 DEF Inv, Layers, SetStatus
  <2>2. handler = "running" /\ WriteBody => UNCHANGED rw
    BY <1>1 DEF Inv, Layers, WriteBody
  <2>3. CASE Handle
    BY <2>1, <2>2, <2>3
       DEF Handle, HandlerSetsStatus, HandlerWritesBody, HandlerReturns,
           HandlerFails, HandlerPanics
  <2>4. CASE Serve
    BY <1>1, <2>4 DEF Serve, ServeReturns, Expire, FinishRequest, Abort
  <2>5. CASE Configure
    BY <1>1, <2>5 DEF Configure, WithMiddlewares, WithErrorHandler, WithRoutes,
                      Given, Arrive
  <2> QED
    BY <1>1, <2>3, <2>4, <2>5 DEF Next
<1>2. Inv /\ [Next]_vars
        => [phase # "serving" /\ phase' = phase => UNCHANGED rw]_vars
  BY <1>1
<1> QED
  BY <1>2, Always, PTL DEF Spec, LateHandlerIsSilent

(***************************************************************************)
(* The error handler that answers.  A handler that has not written anything *)
(* has left the response alone, so that the first status is that of the     *)
(* error handler, and the options have left the last one in settings.       *)
(***************************************************************************)
Untouched ==
  writes = 0 /\ handler \in {"none", "running"} /\ ~expired
    => buffer = NoStatus /\ rw = newResponseWriter

Answered ==
  writes = 0 /\ handler = "failed" /\ ~expired =>
    /\ HasTimeoutHandler => buffer = settings.errorHandler
    /\ ~HasTimeoutHandler \/ phase \in {"logged", "finished"}
         => rw.sent = settings.errorHandler

Awaited == phase \notin {"options", "serving"} /\ ~expired => handler # "running"

ErrorInv == /\ Inv
            /\ LastErrorHandler(settings.errorHandler)
            /\ Untouched
            /\ Answered
            /\ Awaited

LEMMA AppendedOption ==
  ASSUME NEW option \in Options, options \in Seq(Options),
         options' = Append(options, option)
  PROVE  /\ DOMAIN options' = 1..(Len(options) + 1)
         /\ DOMAIN options = 1..Len(options) /\ Len(options) \in Nat
         /\ Len(options') = Len(options) + 1
         /\ options'[Len(options) + 1] = option
         /\ \A i \in 1..Len(options) : options'[i] = options[i]
  OBVIOUS

(* An option that installs no error handler leaves the last one last. *)
LEMMA StaysLast ==
  ASSUME NEW option \in Options, options \in Seq(Options),
         options' = Append(options, option), option.to # "errorHandler",
         NEW status, LastErrorHandler(status)
  PROVE  LastErrorHandler(status)'
<1> USE AppendedOption
<1>1. CASE /\ status = StatusInternalServerError
           /\ \A i \in DOMAIN options : options[i].to # "errorHandler"
  BY <1>1 DEF LastErrorHandler
<1>2. CASE \E i \in DOMAIN options :
             /\ options[i].to = "errorHandler" /\ options[i].status = status
             /\ \A j \in (i + 1)..Len(options) : options[j].to # "errorHandler"
  <2>1. PICK i \in DOMAIN options :
          /\ options[i].to = "errorHandler" /\ options[i].status = status
          /\ \A j \in (i + 1)..Len(options) : options[j].to # "errorHandler"
    BY <1>2
  <2>2. /\ i \in DOMAIN options' /\ options'[i] = options[i]
        /\ \A j \in (i + 1)..Len(options') : options'[j].to # "errorHandler"
    BY <2>1
  <2> QED
    BY <2>1, <2>2 DEF LastErrorHandler
<1> QED
  BY <1>1, <1>2 DEF LastErrorHandler

LEMMA LastIsKept ==
  ASSUME Inv, Configure, LastErrorHandler(settings.errorHandler)
  PROVE  LastErrorHandler(settings.errorHandler)'
<1> USE RequestAssumption
<1>1. settings \in Settings /\ options \in Seq(Options)
  BY DEF Inv, TypeOK
<1>2. ASSUME NEW middlewares \in Chains, WithMiddlewares(middlewares)
      PROVE  LastErrorHandler(settings.errorHandler)'
  <2>1. settings'.errorHandler = settings.errorHandler
    BY <1>1, <1>2 DEF WithMiddlewares, Settings
  <2> QED
    BY <1>1, <1>2, <2>1, OptionsTyped, StaysLast DEF WithMiddlewares, Given
<1>3. ASSUME NEW status \in ErrorStatuses, WithErrorHandler(status)
      PROVE  LastErrorHandler(settings.errorHandler)'
  <2>1. settings'.errorHandler = status
    BY <1>1, <1>3 DEF WithErrorHandler, Settings
  <2> DEFINE option == [to |-> "errorHandler", status |-> status]
  <2>2. option \in Options /\ options' = Append(options, option)
    BY <1>3, OptionsTyped DEF WithErrorHandler, Given
  <2>3. option.to = "errorHandler" /\ option.status = status
    OBVIOUS
  <2> HIDE DEF option
  <2>4. /\ Len(options) + 1 \in DOMAIN options'
        /\ options'[Len(options) + 1] = option
        /\ (Len(options) + 2)..Len(options') = {}
    BY <1>1, <2>2, AppendedOption
  <2> QED
    BY <1>1, <2>1, <2>3, <2>4, AppendedOption, <2>2 DEF LastErrorHandler
<1>4. ASSUME NEW r \in Routes, WithRoutes(r)
      PROVE  LastErrorHandler(settings.errorHandler)'
  <2>1. settings'.errorHandler = settings.errorHandler
    BY <1>1, <1>4 DEF WithRoutes, Settings
  <2> QED
    BY <1>1, <1>4, <2>1, OptionsTyped, StaysLast DEF WithRoutes, Given
<1>5. CASE Arrive
  BY <1>5 DEF Arrive, LastErrorHandler
<1> QED
  BY <1>2, <1>3, <1>4, <1>5 DEF Configure

LEMMA ErrorInitially == Init => ErrorInv
<1> SUFFICES ASSUME Init PROVE ErrorInv
  OBVIOUS
<1>1. Inv
  BY Initially
<1>2. LastErrorHandler(settings.errorHandler)
  BY DEF Init, LastErrorHandler, defaultSettings
<1>3. Untouched /\ Answered /\ Awaited
  BY DEF Init, Untouched, Answered, Awaited
<1> QED
  BY <1>1, <1>2, <1>3 DEF ErrorInv

(* The first status passed to an untouched response is the one sent. *)
LEMMA FirstIsSent ==
  ASSUME NEW code \in Codes, ~Informational(code)
  PROVE  /\ WriteHeader(newResponseWriter, code).sent = code
         /\ WriteHeader(newResponseWriter, code) \in Responses
<1> USE HeaderWritten, Fresh
<1> QED
  OBVIOUS

LEMMA ErrorInductive == ErrorInv /\ [Next]_vars => ErrorInv'
<1> SUFFICES ASSUME ErrorInv, [Next]_vars PROVE ErrorInv'
  OBVIOUS
<1> USE RequestAssumption
<1>1. Inv /\ Inv'
  BY Inductive DEF ErrorInv
<1>2. /\ settings.errorHandler \in Codes /\ ~Informational(settings.errorHandler)
      /\ settings.errorHandler # NoStatus
  BY <1>1, ErrorHandlerFinal
<1>3. ASSUME NEW code \in Statuses, HandlerSetsStatus(code) PROVE ErrorInv'
  <2>1. writes' # 0 /\ UNCHANGED <<options, settings, phase, handler, expired>>
    BY <1>1, <1>3 DEF HandlerSetsStatus, Inv, TypeOK
  <2> QED
    BY <1>1, <2>1 DEF ErrorInv, Untouched, Answered, Awaited, LastErrorHandler
<1>4. CASE HandlerWritesBody
  <2>1. writes' # 0 /\ UNCHANGED <<options, settings, phase, handler, expired>>
    BY <1>1, <1>4 DEF HandlerWritesBody, Inv, TypeOK
  <2> QED
    BY <1>1, <2>1 DEF ErrorInv, Untouched, Answered, Awaited, LastErrorHandler
<1>5. CASE HandlerReturns \/ HandlerPanics
  BY <1>1, <1>5 DEF HandlerReturns, HandlerPanics, ErrorInv, Untouched, Answered,
                    Awaited, LastErrorHandler
<1>6. CASE HandlerFails
  <2>1. /\ handler = "running" /\ handler' = "failed"
        /\ SetStatus(settings.errorHandler)
        /\ UNCHANGED <<options, settings, timeout, phase, writes, expired>>
    BY <1>6 DEF HandlerFails
  <2>2. HasTimeoutHandler' = HasTimeoutHandler
    BY <2>1 DEF HasTimeoutHandler
  <2>3. ASSUME writes = 0, ~expired
        PROVE  /\ HasTimeoutHandler => buffer' = settings.errorHandler
               /\ HasTimeoutHandler => phase \notin {"logged", "finished"}
               /\ ~HasTimeoutHandler => rw'.sent = settings.errorHandler
    <3>1. buffer = NoStatus /\ rw = newResponseWriter
      BY <2>1, <2>3 DEF ErrorInv, Untouched
    <3>2. phase \notin {"logged", "finished"}
      BY <2>1, <2>3 DEF ErrorInv, Awaited
    <3>3. CASE HasTimeoutHandler
      BY <2>1, <2>3, <3>1, <3>2, <3>3 DEF SetStatus
    <3>4. CASE ~HasTimeoutHandler
      BY <1>2, <2>1, <3>1, <3>4, FirstIsSent DEF SetStatus
    <3> QED
      BY <3>3, <3>4
  <2>4. Answered'
    BY <2>1, <2>2, <2>3 DEF Answered
  <2> QED
    BY <1>1, <2>1, <2>4 DEF ErrorInv, Untouched, Awaited, LastErrorHandler
<1>7. CASE Configure
  <2>1. LastErrorHandler(settings.errorHandler)'
    BY <1>1, <1>7, LastIsKept DEF ErrorInv
  <2>2. /\ phase = "options" /\ phase' \in {"options", "serving"}
        /\ handler = "none" /\ handler' \in {"none", "running"}
        /\ UNCHANGED <<writes, buffer, expired, rw>>
    BY <1>1, <1>7 DEF Configure, WithMiddlewares, WithErrorHandler, WithRoutes,
                      Given, Arrive, Inv, Layers
  <2> QED
    BY <1>1, <2>1, <2>2 DEF ErrorInv, Untouched, Answered, Awaited
<1>8. CASE ServeReturns
  <2>1. /\ phase = "serving" /\ phase' = "logged" /\ handler \in {"done", "failed"}
        /\ UNCHANGED <<options, settings, timeout, handler, writes, buffer, expired>>
    BY <1>8 DEF ServeReturns
  <2>2. HasTimeoutHandler' = HasTimeoutHandler
    BY <2>1 DEF HasTimeoutHandler
  <2>3. ASSUME writes = 0, handler = "failed", ~expired
        PROVE  rw'.sent = settings.errorHandler
    <3>1. CASE ~HasTimeoutHandler
      BY <1>8, <2>3, <3>1 DEF ServeReturns, ErrorInv, Answered
    <3>2. CASE HasTimeoutHandler
      <4>1. buffer = settings.errorHandler /\ rw = newResponseWriter
        BY <1>1, <2>1, <2>3, <3>2 DEF ErrorInv, Answered, Inv, Layers
      <4>2. rw' = Write(WriteHeader(newResponseWriter, settings.errorHandler))
        BY <1>2, <1>8, <3>2, <4>1 DEF ServeReturns
      <4> QED
        BY <1>2, <4>2, FirstIsSent, Written
    <3> QED
      BY <3>1, <3>2
  <2>4. Answered'
    BY <2>1, <2>2, <2>3 DEF ErrorInv, Answered
  <2> QED
    BY <1>1, <2>1, <2>4 DEF ErrorInv, Untouched, Awaited, LastErrorHandler
<1>9. CASE Expire
  BY <1>1, <1>9 DEF Expire, ErrorInv, Untouched, Answered, Awaited,
                    LastErrorHandler
<1>10. CASE FinishRequest
  <2>1. /\ phase = "logged" /\ phase' = "finished" /\ rw' = ImplicitOK(rw)
        /\ UNCHANGED <<options, settings, timeout, handler, writes, buffer, expired>>
    BY <1>10 DEF FinishRequest
  <2>2. HasTimeoutHandler' = HasTimeoutHandler
    BY <2>1 DEF HasTimeoutHandler
  <2>3. rw.sent # NoStatus => rw'.sent = rw.sent
    BY <1>1, <2>1, Written DEF Inv, TypeOK
  <2>4. Answered'
    BY <1>2, <2>1, <2>2, <2>3 DEF ErrorInv, Answered
  <2>5. Untouched'
    BY <1>1, <2>1 DEF ErrorInv, Untouched, Awaited, Inv, Layers
  <2> QED
    BY <1>1, <2>1, <2>4, <2>5 DEF ErrorInv, Awaited, LastErrorHandler
<1>11. CASE Abort
  <2>1. /\ phase' = "aborted" /\ handler = "panicked"
        /\ UNCHANGED <<options, settings, handler, writes, buffer, expired, rw>>
    BY <1>11 DEF Abort
  <2> QED
    BY <1>1, <2>1 DEF ErrorInv, Untouched, Answered, Awaited, LastErrorHandler
<1>12. CASE UNCHANGED vars
  BY <1>1, <1>12 DEF vars, ErrorInv, Untouched, Answered, Awaited,
                     HasTimeoutHandler, LastErrorHandler
<1> QED
  BY <1>3, <1>4, <1>5, <1>6, <1>7, <1>8, <1>9, <1>10, <1>11, <1>12
     DEF Next, Handle, Serve

(* server.go:89-114, server_options.go:75-82: whatever the order of the      *)
(* options, the error of a handler that wrote nothing is answered by the     *)
(* error handler given last, unless the timeout of the route came first.     *)
THEOREM ErrorsAnswered == Spec => []ErrorsReachClient
<1>1. ErrorInv => ErrorsReachClient
  BY DEF ErrorInv, Answered, ErrorsReachClient
<1>2. Spec => []ErrorInv
  BY ErrorInitially, ErrorInductive, PTL DEF Spec
<1> QED
  BY <1>1, <1>2, PTL

-----------------------------------------------------------------------------
(* Lists of middlewares of any length.  The folds of Middleware go through  *)
(* sets of indices, and what they compute is proved by induction over a set *)
(* of numbers, one fold at a time.                                          *)

(* A set that has 0, and with a number the next one, has all of them: what   *)
(* it has up to one it lacks could be moved up by one, into less room.      *)
LEMMA SetInduction ==
  ASSUME NEW P, 0 \in P, \A n \in Nat : n \in P => n + 1 \in P
  PROVE  \A n \in Nat : n \in P
<1> SUFFICES ASSUME NEW n \in Nat, n \notin P PROVE FALSE
  OBVIOUS
<1> DEFINE S == {x \in 0..n : x \in P}
           T == S \ {0}
           next == [x \in S |-> x + 1]
<1>1. S \in SUBSET (0..n) /\ 0 \in S
  OBVIOUS
<1>2. IsFiniteSet(S)
  <2>1. IsFiniteSet(0..n)
    BY FS_Interval
  <2> HIDE DEF S
  <2> QED
    BY <1>1, <2>1, FS_Subset
<1>3. IsFiniteSet(T) /\ Cardinality(T) = Cardinality(S) - 1 /\ Cardinality(S) \in Nat
  BY <1>1, <1>2, FS_RemoveElement, FS_CardinalityType
<1>4. next \in [S -> T]
  OBVIOUS
<1>5. \A x, y \in S : x # y => next[x] # next[y]
  OBVIOUS
<1> HIDE DEF S, T, next
<1>6. Cardinality(T) < Cardinality(S)
  BY <1>3
<1> QED
  BY <1>2, <1>3, <1>4, <1>5, <1>6, FS_PigeonHole

(* f is what FoldLeft computes, on every set of indices up to n, with base   *)
(* and the function G for its operation.                                    *)
Folds(f, base, G, n) ==
  \A s \in SUBSET (1..n) :
    /\ s # {} => Max(s) \in s
    /\ f[s] = IF s = {} THEN base ELSE G[<<Max(s), f[s \ {Max(s)}]>>]

(* There is such a function.                                                *)
LEMMA FoldDefined ==
  ASSUME NEW n \in Nat, NEW V, NEW base \in V, NEW G \in [(1..n) \X V -> V]
  PROVE  \E f \in [SUBSET (1..n) -> V] : Folds(f, base, G, n)
<1> DEFINE Loop(f, k) == \A s \in SUBSET (1..k) :
             /\ s # {} => Max(s) \in s
             /\ f[s] = IF s = {} THEN base ELSE G[<<Max(s), f[s \ {Max(s)}]>>]
           Defined(k) == \E f \in [SUBSET (1..k) -> V] : Loop(f, k)
           P == {k \in Nat : k <= n => Defined(k)}
<1>1. 0 \in P
  <2> DEFINE f == [s \in SUBSET (1..0) |-> base]
  <2>1. \A s \in SUBSET (1..0) : s = {}
    OBVIOUS
  <2>2. Loop(f, 0)
    BY <2>1
  <2>3. f \in [SUBSET (1..0) -> V]
    OBVIOUS
  <2>4. Defined(0)
    BY <2>2, <2>3
  <2> QED
    BY <2>4
<1>2. ASSUME NEW k \in Nat, k \in P PROVE k + 1 \in P
  <2> SUFFICES ASSUME k + 1 <= n PROVE Defined(k + 1)
    <3> HIDE DEF Defined
    <3> QED
      OBVIOUS
  <2>0. Defined(k)
    <3> HIDE DEF Defined
    <3> QED
      BY <1>2
  <2>1. PICK g \in [SUBSET (1..k) -> V] : Loop(g, k)
    BY <2>0
  <2> DEFINE f == [s \in SUBSET (1..(k + 1)) |->
                     IF k + 1 \in s THEN G[<<k + 1, g[s \ {k + 1}]>>] ELSE g[s]]
  <2>2. \A s \in SUBSET (1..(k + 1)) :
          /\ s \ {k + 1} \in SUBSET (1..k)
          /\ k + 1 \notin s => s \in SUBSET (1..k)
          /\ k + 1 \in s => Max(s) = k + 1
    <3> SUFFICES ASSUME NEW s \in SUBSET (1..(k + 1))
                 PROVE  /\ s \ {k + 1} \in SUBSET (1..k)
                        /\ k + 1 \notin s => s \in SUBSET (1..k)
                        /\ k + 1 \in s => Max(s) = k + 1
      OBVIOUS
    <3>1. ASSUME k + 1 \in s PROVE Max(s) = k + 1
      <4>1. \A y \in s : k + 1 >= y
        OBVIOUS
      <4>2. \A x \in s : (\A y \in s : x >= y) => x = k + 1
        BY <3>1
      <4> QED
        BY <3>1, <4>1, <4>2 DEF Max
    <3> QED
      BY <3>1
  <2>3. f \in [SUBSET (1..(k + 1)) -> V]
    <3>1. \A s \in SUBSET (1..(k + 1)) : k + 1 \in s => <<k + 1, g[s \ {k + 1}]>> \in (1..n) \X V
      BY <2>1, <2>2
    <3> QED
      BY <2>1, <2>2, <3>1
  <2>4. ASSUME NEW s \in SUBSET (1..(k + 1))
        PROVE  /\ s # {} => Max(s) \in s
               /\ f[s] = IF s = {} THEN base ELSE G[<<Max(s), f[s \ {Max(s)}]>>]
    <3>1. CASE k + 1 \in s
      <4>1. Max(s) = k + 1 /\ s # {}
        BY <2>2, <3>1
      <4>2. f[s \ {k + 1}] = g[s \ {k + 1}]
        BY <2>2
      <4> QED
        BY <3>1, <4>1, <4>2
    <3>2. CASE k + 1 \notin s
      <4>1. s \in SUBSET (1..k) /\ f[s] = g[s]
        BY <2>2, <3>2
      <4>2. /\ s # {} => Max(s) \in s
            /\ g[s] = IF s = {} THEN base ELSE G[<<Max(s), g[s \ {Max(s)}]>>]
        BY <2>1, <4>1
      <4>3. f[s \ {Max(s)}] = g[s \ {Max(s)}]
        BY <3>2
      <4> QED
        BY <4>1, <4>2, <4>3
    <3> QED
      BY <3>1, <3>2
  <2>5. Loop(f, k + 1)
    BY <2>4
  <2> HIDE DEF f, Loop
  <2> QED
    BY <2>3, <2>5
<1>3. n \in P
  <2> HIDE DEF P
  <2> QED
    BY <1>1, <1>2, SetInduction
<1>4. Defined(n)
  <2> HIDE DEF Defined
  <2> QED
    BY <1>3
<1> QED
  BY <1>4 DEF Folds
(* The fold takes the last index of 1..k, and 1..(k - 1) is left.          *)
LEMMA MaxOfInterval ==
  ASSUME NEW k \in Nat, k # 0
  PROVE  /\ Max(1..k) = k /\ 1..k # {}
         /\ (1..k) \ {k} = 1..(k - 1)
<1>1. k \in 1..k /\ \A y \in 1..k : k >= y
  OBVIOUS
<1>2. \A x \in 1..k : (\A y \in 1..k : x >= y) => x = k
  BY <1>1
<1>3. Max(1..k) = k
  BY <1>1, <1>2 DEF Max
<1> QED
  BY <1>1, <1>3

(* The loop from the last middleware to the first leaves the first one       *)
(* outermost: the layers are in the order they were given in                *)
(* (server.go:193-205).                                                     *)
THEOREM OrderKept ==
  ASSUME NEW ms \in Seq(Kinds)
  PROVE  Middlewares(<<>>, ms) = ms
<1> DEFINE n == Len(ms)
           ids == [i \in DOMAIN ms |-> i]
           iter[s \in SUBSET (DOMAIN ids)] ==
             IF s = {} THEN <<>>
             ELSE <<ms[Len(ms) + 1 - ids[Max(s)]]>> \o iter[s \ {Max(s)}]
<1>1. Middlewares(<<>>, ms) = iter[DOMAIN ids]
  BY DEF Middlewares, FoldLeft, MapThenFoldSet
<1>2. /\ n \in Nat /\ DOMAIN ms = 1..n /\ DOMAIN ids = 1..n
      /\ \A i \in 1..n : ids[i] = i
  OBVIOUS
<1>3. iter = [s \in SUBSET (DOMAIN ids) |->
             IF s = {} THEN <<>>
             ELSE <<ms[Len(ms) + 1 - ids[Max(s)]]>> \o iter[s \ {Max(s)}]]
  <2> DEFINE G == [p \in (1..n) \X Seq(Kinds) |-> <<ms[n + 1 - p[1]]>> \o p[2]]
  <2>1. G \in [(1..n) \X Seq(Kinds) -> Seq(Kinds)]
    OBVIOUS
  <2>2. PICK f \in [SUBSET (1..n) -> Seq(Kinds)] : Folds(f, <<>>, G, n)
    <3>1. n \in Nat /\ <<>> \in Seq(Kinds)
      OBVIOUS
    <3> HIDE DEF G, n, iter
    <3> QED
      BY <2>1, <3>1, FoldDefined
  <2>3. f = [s \in SUBSET (DOMAIN ids) |->
               IF s = {} THEN <<>>
               ELSE <<ms[Len(ms) + 1 - ids[Max(s)]]>> \o f[s \ {Max(s)}]]
    <3>1. ASSUME NEW s \in SUBSET (1..n), s # {}
          PROVE  /\ <<Max(s), f[s \ {Max(s)}]>> \in (1..n) \X Seq(Kinds)
                 /\ ids[Max(s)] = Max(s)
      <4>1. Max(s) \in 1..n /\ s \ {Max(s)} \in SUBSET (1..n)
        BY <2>2, <3>1 DEF Folds
      <4> HIDE DEF iter, G
      <4> QED
        BY <4>1
    <3>2. ASSUME NEW s \in SUBSET (1..n), s # {}
          PROVE  f[s] = <<ms[Len(ms) + 1 - ids[Max(s)]]>> \o f[s \ {Max(s)}]
      BY <2>2, <3>1, <3>2 DEF Folds
    <3> QED
      BY <1>2, <2>2, <3>2 DEF Folds
  <2> HIDE DEF n, ids
  <2> QED
    BY <2>3 DEF iter
<1> HIDE DEF iter, ids
<1>4. iter[1..0] = <<>>
  <2>1. 1..0 = {} /\ {} \in SUBSET (DOMAIN ids)
    OBVIOUS
  <2> QED
    BY <1>3, <2>1
<1>5. ASSUME NEW k \in Nat, k < n
      PROVE  iter[1..(k + 1)] = <<ms[n - k]>> \o iter[1..k]
  <2>1. /\ Max(1..(k + 1)) = k + 1 /\ 1..(k + 1) # {}
        /\ (1..(k + 1)) \ {k + 1} = 1..k
    BY MaxOfInterval
  <2>2. 1..(k + 1) \in SUBSET (DOMAIN ids) /\ ids[k + 1] = k + 1
    BY <1>2, <1>5
  <2>3. n + 1 - (k + 1) = n - k
    <3> HIDE DEF n
    <3> QED
      BY <1>2
  <2> DEFINE s == 1..(k + 1)
  <2>4. iter[s] = <<ms[n + 1 - ids[Max(s)]]>> \o iter[s \ {Max(s)}]
    <3>1. s \in SUBSET (DOMAIN ids) /\ s # {}
      BY <2>1, <2>2
    <3> HIDE DEF s
    <3> QED
      BY <1>3, <3>1
  <2> QED
    BY <2>1, <2>2, <2>3, <2>4
<1> DEFINE End(k) == [j \in 1..k |-> ms[n - k + j]]
           P == {k \in Nat : k <= n => iter[1..k] = End(k)}
<1>6. 0 \in P
  BY <1>4
<1>7. ASSUME NEW k \in Nat, k \in P PROVE k + 1 \in P
  <2> SUFFICES ASSUME k < n PROVE iter[1..(k + 1)] = End(k + 1)
    BY <1>2
  <2>1. iter[1..(k + 1)] = <<ms[n - k]>> \o End(k)
    <3>1. k <= n
      BY <1>2
    <3>2. iter[1..k] = End(k)
      <4> HIDE DEF End
      <4> QED
        BY <1>7, <3>1
    <3> QED
      BY <1>5, <3>2
  <2>2. End(k) \in Seq(Kinds) /\ Len(End(k)) = k
    BY <1>2
  <2>3. <<ms[n - k]>> \in Seq(Kinds) /\ Len(<<ms[n - k]>>) = 1
    BY <1>2
  <2> DEFINE t == <<ms[n - k]>> \o End(k)
  <2>4. /\ t \in Seq(Kinds) /\ Len(t) = k + 1
        /\ t[1] = ms[n - k]
        /\ \A j \in 2..(k + 1) : t[j] = End(k)[j - 1]
    <3> HIDE DEF End
    <3> QED
      BY <2>2, <2>3
  <2> HIDE DEF t
  <2>5. \A j \in 1..(k + 1) : t[j] = ms[n - (k + 1) + j]
    BY <1>2, <2>4
  <2>6. t = End(k + 1)
    BY <2>4, <2>5
  <2> QED
    BY <2>1, <2>6 DEF t
<1>8. n \in P
  <2> HIDE DEF P
  <2> QED
    BY <1>2, <1>6, <1>7, SetInduction
<1>9. End(n) = ms
  BY <1>2
<1> QED
  BY <1>1, <1>2, <1>8, <1>9

-----------------------------------------------------------------------------
Contexts ==
  [config : {"none", "default", "app"}, fields : SUBSET Fields, metric : BOOLEAN]

(* A layer of this kind is among the first k, and no Logger behind it.      *)
LastingAmong(layers, k, kind) ==
  \E i \in 1..k : layers[i] = kind /\ \A j \in (i + 1)..k : layers[j] # "Logger"

Among(layers, k, kind) == \E i \in 1..k : layers[i] = kind

(* ctx is what the first k layers leave of the empty context.               *)
LeftBy(ctx, layers, k, sent) ==
  /\ "trace-id" \in ctx.fields <=> LastingAmong(layers, k, "TraceID")
  /\ "request-id" \in ctx.fields <=> LastingAmong(layers, k, "RequestID") /\ sent
  /\ ctx.config = "app" <=> Among(layers, k, "Logger")
  /\ ctx.metric <=> Among(layers, k, "Metrics")

(* The two of one more layer.                                               *)
LEMMA OneMoreLayer ==
  ASSUME NEW layers, NEW k \in Nat, NEW kind
  PROVE  /\ Among(layers, k + 1, kind) <=> Among(layers, k, kind) \/ layers[k + 1] = kind
         /\ kind # "Logger" =>
              (LastingAmong(layers, k + 1, kind) <=>
                 \/ layers[k + 1] = kind
                 \/ LastingAmong(layers, k, kind) /\ layers[k + 1] # "Logger")
<1>1. \A i \in 1..(k + 1) : i \in 1..k \/ i = k + 1
  OBVIOUS
<1>2. \A i \in 1..k : i \in 1..(k + 1)
  OBVIOUS
<1>3. k + 1 \in 1..(k + 1)
  OBVIOUS
<1>4. Among(layers, k + 1, kind) <=> Among(layers, k, kind) \/ layers[k + 1] = kind
  BY <1>1, <1>2, <1>3 DEF Among
<1>5. ASSUME kind # "Logger", LastingAmong(layers, k + 1, kind), layers[k + 1] # kind
      PROVE  LastingAmong(layers, k, kind) /\ layers[k + 1] # "Logger"
  <2>1. PICK i \in 1..(k + 1) :
          layers[i] = kind /\ \A j \in (i + 1)..(k + 1) : layers[j] # "Logger"
    BY <1>5 DEF LastingAmong
  <2>2. i \in 1..k
    BY <1>5, <2>1
  <2>3. k + 1 \in (i + 1)..(k + 1) /\ \A j \in (i + 1)..k : j \in (i + 1)..(k + 1)
    BY <2>2
  <2> QED
    BY <2>1, <2>2, <2>3 DEF LastingAmong
<1>6. ASSUME layers[k + 1] = kind PROVE LastingAmong(layers, k + 1, kind)
  <2>1. (k + 1 + 1)..(k + 1) = {}
    OBVIOUS
  <2> QED
    BY <1>3, <1>6, <2>1 DEF LastingAmong
<1>7. ASSUME LastingAmong(layers, k, kind), layers[k + 1] # "Logger"
      PROVE  LastingAmong(layers, k + 1, kind)
  <2>1. PICK i \in 1..k :
          layers[i] = kind /\ \A j \in (i + 1)..k : layers[j] # "Logger"
    BY <1>7 DEF LastingAmong
  <2>2. \A j \in (i + 1)..(k + 1) : layers[j] # "Logger"
    BY <1>7, <2>1
  <2> QED
    BY <1>2, <2>1, <2>2 DEF LastingAmong
<1> QED
  BY <1>4, <1>5, <1>6, <1>7

(* What the next layer makes of the context.                                *)
LEMMA LayerPassed ==
  ASSUME NEW layers \in Seq(Kinds), NEW k \in Nat, k < Len(layers),
         NEW sent \in BOOLEAN, NEW ctx \in Contexts,
         LeftBy(ctx, layers, k, sent)
  PROVE  /\ Through(layers[k + 1], ctx, sent) \in Contexts
         /\ LeftBy(Through(layers[k + 1], ctx, sent), layers, k + 1, sent)
<1> DEFINE m == layers[k + 1]
           next == Through(m, ctx, sent)
<1>1. m \in Kinds
  OBVIOUS
<1>2. /\ ctx.config \in {"none", "default", "app"}
      /\ ctx.fields \in SUBSET Fields
      /\ ctx.metric \in BOOLEAN
  BY DEF Contexts
<1>3. \A kind \in Kinds :
        /\ Among(layers, k + 1, kind) <=> Among(layers, k, kind) \/ m = kind
        /\ kind # "Logger" =>
             (LastingAmong(layers, k + 1, kind) <=>
                m = kind \/ (LastingAmong(layers, k, kind) /\ m # "Logger"))
  BY OneMoreLayer
<1> HIDE DEF m
<1>4. CASE m = "Logger"
  <2>1. /\ next \in Contexts /\ next.config = "app" /\ next.fields = {}
        /\ next.metric = ctx.metric
    BY <1>2, <1>4 DEF Through, Logger, Contexts
  <2> QED
    BY <1>3, <1>4, <2>1 DEF LeftBy, Kinds, m
<1>5. CASE m = "Metrics"
  <2>1. /\ next \in Contexts /\ next.config = ctx.config
        /\ next.fields = ctx.fields /\ next.metric = TRUE
    BY <1>2, <1>5 DEF Through, Metrics, Contexts
  <2> QED
    BY <1>3, <1>5, <2>1 DEF LeftBy, Kinds, m
<1>6. \A field \in Fields :
        /\ WithFields(ctx, field) \in Contexts
        /\ WithFields(ctx, field).config = "app" <=> ctx.config = "app"
        /\ WithFields(ctx, field).fields = ctx.fields \union {field}
        /\ WithFields(ctx, field).metric = ctx.metric
  BY <1>2 DEF WithFields, FromContext, Contexts
<1>7. CASE m = "TraceID"
  <2>1. next = WithFields(ctx, "trace-id")
    BY <1>7 DEF Through, TraceID
  <2> QED
    BY <1>3, <1>6, <1>7, <2>1 DEF LeftBy, Kinds, Fields, m
<1>8. CASE m = "RequestID" /\ sent
  <2>1. next = WithFields(ctx, "request-id")
    BY <1>8 DEF Through, RequestID
  <2> QED
    BY <1>3, <1>6, <1>8, <2>1 DEF LeftBy, Kinds, Fields, m
<1>9. CASE m = "RequestID" /\ ~sent
  <2>1. next = ctx
    BY <1>9 DEF Through, RequestID
  <2> QED
    BY <1>3, <1>9, <2>1 DEF LeftBy, Kinds, m
<1> QED
  BY <1>1, <1>4, <1>5, <1>7, <1>8, <1>9 DEF Kinds

(* The request log has the fields of the layers behind the last Logger and  *)
(* of no other, the logger of the application if there is a Logger, and the *)
(* metrics client if there is a Metrics (middlewares.go:14-54).             *)
THEOREM FieldsReached ==
  ASSUME NEW layers \in Seq(Kinds), NEW sent \in BOOLEAN
  PROVE  LeftBy(ContextReached(layers, sent), layers, Len(layers), sent)
<1> DEFINE n == Len(layers)
           iter[s \in SUBSET (DOMAIN layers)] ==
             IF s = {} THEN EmptyContext
             ELSE Through(layers[Max(s)], iter[s \ {Max(s)}], sent)
<1>1. ContextReached(layers, sent) = FromContext(iter[DOMAIN layers])
  BY DEF ContextReached, FoldLeft, MapThenFoldSet
<1>2. n \in Nat /\ DOMAIN layers = 1..n
  OBVIOUS
<1>3. iter = [s \in SUBSET (DOMAIN layers) |->
                IF s = {} THEN EmptyContext
                ELSE Through(layers[Max(s)], iter[s \ {Max(s)}], sent)]
  <2> DEFINE G == [p \in (1..n) \X Contexts |-> Through(layers[p[1]], p[2], sent)]
  <2>1. G \in [(1..n) \X Contexts -> Contexts]
    <3> SUFFICES ASSUME NEW i \in 1..n, NEW ctx \in Contexts
                 PROVE  Through(layers[i], ctx, sent) \in Contexts
      OBVIOUS
    <3>1. layers[i] \in Kinds
      BY <1>2
    <3> HIDE DEF iter
    <3> QED
      BY <3>1 DEF Through, Logger, RequestID, TraceID, Metrics, WithFields,
                  FromContext, Contexts, Kinds, Fields
  <2>2. PICK f \in [SUBSET (1..n) -> Contexts] : Folds(f, EmptyContext, G, n)
    <3>1. EmptyContext \in Contexts
      BY DEF EmptyContext, Contexts
    <3> HIDE DEF G, n, iter
    <3> QED
      BY <1>2, <2>1, <3>1, FoldDefined
  <2>3. f = [s \in SUBSET (DOMAIN layers) |->
               IF s = {} THEN EmptyContext
               ELSE Through(layers[Max(s)], f[s \ {Max(s)}], sent)]
    <3> HIDE DEF iter, n
    <3>1. ASSUME NEW s \in SUBSET (1..n), s # {}
          PROVE  f[s] = Through(layers[Max(s)], f[s \ {Max(s)}], sent)
      <4>1. Max(s) \in 1..n /\ f[s \ {Max(s)}] \in Contexts
        BY <2>2, <3>1 DEF Folds
      <4>2. f[s] = G[<<Max(s), f[s \ {Max(s)}]>>]
        BY <2>2, <3>1 DEF Folds
      <4> QED
        BY <4>1, <4>2
    <3> QED
      BY <1>2, <2>2, <3>1 DEF Folds
  <2> HIDE DEF n
  <2> QED
    BY <2>3 DEF iter
<1> HIDE DEF iter
<1>4. iter[1..0] = EmptyContext
  <2>1. 1..0 = {} /\ {} \in SUBSET (DOMAIN layers)
    OBVIOUS
  <2> QED
    BY <1>3, <2>1
<1>5. ASSUME NEW k \in Nat, k < n
      PROVE  iter[1..(k + 1)] = Through(layers[k + 1], iter[1..k], sent)
  <2>1. /\ Max(1..(k + 1)) = k + 1 /\ 1..(k + 1) # {}
        /\ (1..(k + 1)) \ {k + 1} = 1..k
    BY MaxOfInterval
  <2>2. 1..(k + 1) \in SUBSET (DOMAIN layers)
    BY <1>2, <1>5
  <2> DEFINE s == 1..(k + 1)
  <2>3. iter[s] = Through(layers[Max(s)], iter[s \ {Max(s)}], sent)
    <3>1. s \in SUBSET (DOMAIN layers) /\ s # {}
      BY <2>1, <2>2
    <3> HIDE DEF s
    <3> QED
      BY <1>3, <3>1
  <2> QED
    BY <2>1, <2>3
<1> DEFINE After(k) == iter[1..k] \in Contexts /\ LeftBy(iter[1..k], layers, k, sent)
           P == {k \in Nat : k <= n => After(k)}
<1>6. 0 \in P
  <2>1. EmptyContext \in Contexts /\ LeftBy(EmptyContext, layers, 0, sent)
    BY DEF EmptyContext, Contexts, LeftBy, LastingAmong, Among
  <2> QED
    BY <1>4, <2>1
<1>7. ASSUME NEW k \in Nat, k \in P PROVE k + 1 \in P
  <2> SUFFICES ASSUME k < n PROVE After(k + 1)
    <3> HIDE DEF After, n
    <3> QED
      BY <1>2
  <2>1. After(k)
    <3> HIDE DEF After, n
    <3> QED
      BY <1>2, <1>7
  <2> QED
    BY <1>5, <2>1, LayerPassed
<1>8. After(n)
  <2>1. n \in P
    <3> HIDE DEF P, n
    <3> QED
      BY <1>2, <1>6, <1>7, SetInduction
  <2> HIDE DEF After, n
  <2> QED
    BY <1>2, <2>1
<1>9. \A ctx \in Contexts :
        /\ FromContext(ctx).fields = ctx.fields /\ FromContext(ctx).metric = ctx.metric
        /\ FromContext(ctx).config = "app" <=> ctx.config = "app"
  BY DEF FromContext, Contexts
<1> HIDE DEF n
<1> QED
  BY <1>1, <1>2, <1>8, <1>9 DEF LeftBy, n

-----------------------------------------------------------------------------
(* How FlattenSeq joins the sequences of s, one after the other.            *)
LEMMA Joined ==
  ASSUME NEW K, NEW s \in Seq(Seq(K)), Len(s) # 0
  PROVE  \E g :
           /\ g[1] = s[1]
           /\ \A k \in 1..(Len(s) - 1) : g[k + 1] = g[k] \o s[k + 1]
           /\ FlattenSeq(s) = g[Len(s)]
<1> DEFINE n == Len(s)
           Joins(g, k) == \A i \in 1..k : g[i] = IF i = 1 THEN s[i] ELSE g[i - 1] \o s[i]
           Defined(k) == \E g \in [1..k -> Seq(K)] : Joins(g, k)
           P == {k \in Nat : k <= n => Defined(k)}
<1>1. n \in Nat /\ \A i \in 1..n : s[i] \in Seq(K)
  OBVIOUS
<1>2. 0 \in P
  <2> DEFINE g == [i \in 1..0 |-> <<>>]
  <2>1. g \in [1..0 -> Seq(K)] /\ Joins(g, 0)
    OBVIOUS
  <2>2. Defined(0)
    BY <2>1
  <2> HIDE DEF Defined
  <2> QED
    BY <2>2
<1>3. ASSUME NEW k \in Nat, k \in P PROVE k + 1 \in P
  <2> SUFFICES ASSUME k + 1 <= n PROVE Defined(k + 1)
    <3> HIDE DEF Defined
    <3> QED
      OBVIOUS
  <2>1. Defined(k)
    <3> HIDE DEF Defined
    <3> QED
      BY <1>1, <1>3
  <2>2. PICK g \in [1..k -> Seq(K)] : Joins(g, k)
    BY <2>1
  <2> DEFINE h == [i \in 1..(k + 1) |->
                     IF i = k + 1
                     THEN IF i = 1 THEN s[i] ELSE g[i - 1] \o s[i]
                     ELSE g[i]]
  <2>3. h \in [1..(k + 1) -> Seq(K)]
    <3> SUFFICES ASSUME NEW i \in 1..(k + 1)
                 PROVE  (IF i = k + 1
                         THEN IF i = 1 THEN s[i] ELSE g[i - 1] \o s[i]
                         ELSE g[i]) \in Seq(K)
      OBVIOUS
    <3>1. s[i] \in Seq(K)
      BY <1>1
    <3>2. i # 1 => i - 1 \in 1..(k + 1) /\ (i = k + 1 => i - 1 \in 1..k)
      OBVIOUS
    <3>3. i # k + 1 => i \in 1..k
      OBVIOUS
    <3> QED
      BY <2>2, <3>1, <3>2, <3>3
  <2>4. Joins(h, k + 1)
    <3> SUFFICES ASSUME NEW i \in 1..(k + 1)
                 PROVE  h[i] = IF i = 1 THEN s[i] ELSE h[i - 1] \o s[i]
      OBVIOUS
    <3>1. i # 1 => i - 1 \in 1..(k + 1) /\ i - 1 # k + 1
      OBVIOUS
    <3>2. i # 1 => h[i - 1] = g[i - 1]
      BY <3>1
    <3>3. CASE i = k + 1
      BY <3>2, <3>3
    <3>4. CASE i # k + 1
      <4>1. i \in 1..k /\ h[i] = g[i]
        BY <3>4
      <4> QED
        BY <2>2, <3>2, <4>1
    <3> QED
      BY <3>3, <3>4
  <2> HIDE DEF h, Joins
  <2> QED
    BY <2>3, <2>4
<1>4. Defined(n)
  <2>1. n \in P
    <3> HIDE DEF P, n
    <3> QED
      BY <1>1, <1>2, <1>3, SetInduction
  <2> HIDE DEF Defined, n
  <2> QED
    BY <1>1, <2>1
<1> DEFINE flatten[i \in 1..Len(s)] == IF i = 1 THEN s[i] ELSE flatten[i - 1] \o s[i]
<1>5. FlattenSeq(s) = flatten[Len(s)]
  BY DEF FlattenSeq
<1>6. flatten = [i \in 1..Len(s) |-> IF i = 1 THEN s[i] ELSE flatten[i - 1] \o s[i]]
  <2>1. PICK g \in [1..n -> Seq(K)] : Joins(g, n)
    BY <1>4
  <2>2. g = [i \in 1..Len(s) |-> IF i = 1 THEN s[i] ELSE g[i - 1] \o s[i]]
    BY <2>1
  <2> QED
    BY <2>2 DEF flatten
<1> HIDE DEF flatten
<1>7. \A i \in 1..n : flatten[i] = IF i = 1 THEN s[i] ELSE flatten[i - 1] \o s[i]
  BY <1>6
<1>8. flatten[1] = s[1]
  BY <1>7
<1>9. ASSUME NEW k \in 1..(n - 1) PROVE flatten[k + 1] = flatten[k] \o s[k + 1]
  <2>1. PICK i \in 1..n : i = k + 1
    BY <1>1
  <2>2. i # 1 /\ k = i - 1
    BY <2>1
  <2>3. flatten[i] = flatten[i - 1] \o s[i]
    BY <1>7, <2>2
  <2> QED
    BY <2>1, <2>2, <2>3
<1> QED
  BY <1>5, <1>8, <1>9

(* One more sequence is joined at the end.                                  *)
LEMMA OneMoreJoined ==
  ASSUME NEW K, NEW s \in Seq(Seq(K)), NEW x \in Seq(K)
  PROVE  /\ FlattenSeq(s) \in Seq(K)
         /\ FlattenSeq(Append(s, x)) = FlattenSeq(s) \o x
<1> DEFINE n == Len(s)
           t == Append(s, x)
<1>1. /\ n \in Nat /\ t \in Seq(Seq(K)) /\ Len(t) = n + 1 /\ Len(t) # 0
      /\ t[n + 1] = x /\ \A i \in 1..n : t[i] = s[i] /\ s[i] \in Seq(K)
  OBVIOUS
<1> HIDE DEF t
<1>2. PICK h :
        /\ h[1] = t[1]
        /\ \A k \in 1..(Len(t) - 1) : h[k + 1] = h[k] \o t[k + 1]
        /\ FlattenSeq(t) = h[Len(t)]
  BY <1>1, Joined
<1>3. \A k \in 1..n : h[k + 1] = h[k] \o t[k + 1]
  <2>1. Len(t) - 1 = n
    BY <1>1
  <2> HIDE DEF n
  <2> QED
    BY <1>2, <2>1
<1>4. CASE n = 0
  <2>1. s = <<>> /\ FlattenSeq(s) = <<>>
    BY <1>4 DEF FlattenSeq
  <2>2. FlattenSeq(t) = x
    BY <1>1, <1>2, <1>4
  <2>3. <<>> \o x = x /\ <<>> \in Seq(K)
    OBVIOUS
  <2> QED
    BY <2>1, <2>2, <2>3 DEF t
<1>5. CASE n # 0
  <2>1. PICK g :
          /\ g[1] = s[1]
          /\ \A k \in 1..(Len(s) - 1) : g[k + 1] = g[k] \o s[k + 1]
          /\ FlattenSeq(s) = g[Len(s)]
    BY <1>5, Joined
  <2> DEFINE Same(k) == g[k] = h[k] /\ g[k] \in Seq(K)
             P == {k \in Nat : k \in 1..n => Same(k)}
  <2>2. 0 \in P
    OBVIOUS
  <2>3. ASSUME NEW k \in Nat, k \in P PROVE k + 1 \in P
    <3> SUFFICES ASSUME k + 1 \in 1..n PROVE Same(k + 1)
      <4> HIDE DEF Same, n
      <4> QED
        OBVIOUS
    <3>1. k + 1 \in 1..(n + 1) /\ t[k + 1] = s[k + 1] /\ s[k + 1] \in Seq(K)
      BY <1>1
    <3>2. CASE k = 0
      BY <1>2, <2>1, <3>1, <3>2
    <3>3. CASE k # 0
      <4>1. Same(k)
        <5> HIDE DEF Same, n
        <5> QED
          BY <1>1, <2>3, <3>3
      <4>2. g[k + 1] = g[k] \o s[k + 1] /\ h[k + 1] = h[k] \o t[k + 1]
        <5>1. k \in 1..n /\ k \in 1..(Len(s) - 1)
          BY <3>3
        <5> QED
          BY <1>3, <2>1, <5>1
      <4> QED
        BY <3>1, <4>1, <4>2
    <3> QED
      BY <3>2, <3>3
  <2>4. Same(n)
    <3>1. n \in P
      <4> HIDE DEF P, n
      <4> QED
        BY <1>1, <2>2, <2>3, SetInduction
    <3> HIDE DEF Same, n
    <3> QED
      BY <1>1, <1>5, <3>1
  <2>5. FlattenSeq(s) = h[n] /\ FlattenSeq(s) \in Seq(K)
    BY <2>1, <2>4
  <2>6. FlattenSeq(t) = h[n] \o x
    <3>1. n \in 1..n
      BY <1>5
    <3> HIDE DEF n
    <3> QED
      BY <1>1, <1>2, <1>3, <3>1
  <2> QED
    BY <2>5, <2>6 DEF t
<1> QED
  BY <1>4, <1>5
-----------------------------------------------------------------------------
(* The middlewares of the server are those lists, one after the other.      *)
Collected == settings.globalMiddlewares = FlattenSeq(ListsGiven)

LEMMA ListsTyped == Inv => ListsGiven \in Seq(Seq(Kinds))
<1> SUFFICES ASSUME Inv PROVE ListsGiven \in Seq(Seq(Kinds))
  OBVIOUS
<1>1. options \in Seq(Options)
  BY DEF Inv, TypeOK
<1>2. \A option \in Options :
        option.to = "globalMiddlewares" => option.middlewares \in Seq(Kinds)
  BY DEF Options
<1>3. \A i \in DOMAIN options :
        (IF options[i].to = "globalMiddlewares" THEN options[i].middlewares
         ELSE <<>>) \in Seq(Kinds)
  BY <1>1, <1>2
<1>4. Len(options) \in Nat /\ DOMAIN options = 1..Len(options)
  BY <1>1
<1>5. ListsGiven \in [1..Len(options) -> Seq(Kinds)]
  BY <1>3, <1>4 DEF ListsGiven
<1> QED
  BY <1>4, <1>5

(* An option adds its list, if it has one, behind the others.               *)
LEMMA ListAdded ==
  ASSUME Inv, Collected, NEW option, options' = Append(options, option),
         NEW list \in Seq(Kinds),
         list = IF option.to = "globalMiddlewares" THEN option.middlewares ELSE <<>>,
         settings'.globalMiddlewares = settings.globalMiddlewares \o list
  PROVE  Collected'
<1>1. options \in Seq(Options)
  BY DEF Inv, TypeOK
<1>2. ListsGiven' = Append(ListsGiven, list)
  BY <1>1 DEF ListsGiven
<1>3. FlattenSeq(Append(ListsGiven, list)) = FlattenSeq(ListsGiven) \o list
  BY ListsTyped, OneMoreJoined
<1> QED
  BY <1>2, <1>3 DEF Collected

LEMMA CollectedInitially == Init => Collected
<1> SUFFICES ASSUME Init PROVE Collected
  OBVIOUS
<1>1. options = <<>> /\ settings.globalMiddlewares = <<>>
  BY DEF Init, defaultSettings
<1>2. ListsGiven = <<>>
  BY <1>1 DEF ListsGiven
<1>3. FlattenSeq(<<>>) = <<>>
  BY DEF FlattenSeq
<1> QED
  BY <1>1, <1>2, <1>3 DEF Collected

LEMMA CollectedInductive == Inv /\ Collected /\ [Next]_vars => Collected'
<1> SUFFICES ASSUME Inv, Collected, [Next]_vars PROVE Collected'
  OBVIOUS
<1>1. settings \in Settings /\ settings.globalMiddlewares \in Seq(Kinds)
  BY SettingsTyped DEF Inv, TypeOK
<1>2. ASSUME NEW middlewares \in Chains, WithMiddlewares(middlewares)
      PROVE  Collected'
  <2> DEFINE option == [to |-> "globalMiddlewares", middlewares |-> middlewares]
  <2>1. /\ options' = Append(options, option)
        /\ settings'.globalMiddlewares = settings.globalMiddlewares \o middlewares
    BY <1>1, <1>2 DEF WithMiddlewares, Given, Settings
  <2>2. middlewares \in Seq(Kinds)
    BY RequestAssumption
  <2>3. middlewares = IF option.to = "globalMiddlewares"
                      THEN option.middlewares ELSE <<>>
    OBVIOUS
  <2> HIDE DEF option
  <2> QED
    BY <2>1, <2>2, <2>3, ListAdded
<1>3. ASSUME NEW option, options' = Append(options, option),
             option.to # "globalMiddlewares",
             settings'.globalMiddlewares = settings.globalMiddlewares
      PROVE  Collected'
  <2>1. <<>> \in Seq(Kinds)
        /\ settings.globalMiddlewares = settings.globalMiddlewares \o <<>>
    BY <1>1
  <2> QED
    BY <1>3, <2>1, ListAdded
<1>4. ASSUME NEW status, WithErrorHandler(status) PROVE Collected'
  BY <1>1, <1>3, <1>4 DEF WithErrorHandler, Given, Settings
<1>5. ASSUME NEW r, WithRoutes(r) PROVE Collected'
  BY <1>1, <1>3, <1>5 DEF WithRoutes, Given, Settings
<1>6. ASSUME UNCHANGED <<options, settings>> PROVE Collected'
  BY <1>6 DEF Collected, ListsGiven
<1>7. Arrive \/ Handle \/ Serve \/ UNCHANGED vars => UNCHANGED <<options, settings>>
  BY DEF vars, Arrive, Handle, Serve, HandlerSetsStatus, HandlerWritesBody,
         HandlerReturns, HandlerFails, HandlerPanics, ServeReturns, Expire,
         FinishRequest, Abort
<1> QED
  BY <1>2, <1>4, <1>5, <1>6, <1>7 DEF Next, Configure

(* middlewares.go:14-54: whatever options give the middlewares, in whatever  *)
(* lists and order, the request log has every field that is set with no      *)
(* Logger to follow and none that no middleware sets, is of the application  *)
(* exactly if there is a Logger, and finds the metrics client wherever       *)
(* Metrics stands.                                                          *)
THEOREM EntriesCorrelated == Spec => []EntryCorrelated
<1>1. ASSUME Inv, Collected PROVE EntryCorrelated
  <2> DEFINE layers == settings.globalMiddlewares \o own
  <2>1. /\ settings.globalMiddlewares \in Seq(Kinds) /\ own \in Seq(Kinds)
        /\ requestID \in BOOLEAN
    BY <1>1, SettingsTyped DEF Inv, TypeOK
  <2>2. EntryContext = ContextReached(layers, requestID)
    BY <2>1, OrderKept DEF Route, EntryContext
  <2>3. AllGiven = layers
    BY <1>1 DEF Collected, AllGiven
  <2>4. layers \in Seq(Kinds) /\ DOMAIN layers = 1..Len(layers)
    BY <2>1
  <2> HIDE DEF layers
  <2>5. LeftBy(EntryContext, layers, Len(layers), requestID)
    BY <2>1, <2>2, <2>4, FieldsReached
  <2>6. \A kind : LastingAmong(layers, Len(layers), kind) <=> NoLoggerAfter(kind)
    BY <2>3, <2>4 DEF LastingAmong, NoLoggerAfter
  <2>7. \A kind : Among(layers, Len(layers), kind) <=> IsGiven(kind)
    BY <2>3, <2>4 DEF Among, IsGiven
  <2>8. \A kind : NoLoggerAfter(kind) => IsGiven(kind)
    BY DEF NoLoggerAfter, IsGiven
  <2> QED
    BY <2>5, <2>6, <2>7, <2>8 DEF LeftBy, EntryCorrelated
<1>2. Inv /\ Collected /\ [Next]_vars => Inv' /\ Collected'
  BY Inductive, CollectedInductive
<1>3. Init => Inv /\ Collected
  BY Initially, CollectedInitially
<1> QED
  BY <1>1, <1>2, <1>3, PTL DEF Spec
=============================================================================
