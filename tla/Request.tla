------------------------------ MODULE Request -------------------------------
(***************************************************************************)
(* pkg/httpserver: the options a server is assembled from (server_options   *)
(* .go), and one request through a route of it.  The layers of a route,     *)
(* from the client inwards, are the response of net/http, the               *)
(* responseWriter of NewLogRequest, which records the status for the        *)
(* metrics, http.TimeoutHandler when the route has a Timeout, and the error *)
(* handler around the handler of the route.  With a Timeout the handler     *)
(* runs in a goroutine of its own, on a buffered response.                  *)
(*                                                                         *)
(* net/http and its TimeoutHandler are not part of the repository; what     *)
(* they do is taken from their documentation and marked external.           *)
(***************************************************************************)
EXTENDS Integers, Middleware

CONSTANTS
  Routes,         \* routes, with their Timeout, 0 for none, and Middlewares
  Chains,         \* lists of middlewares given to WithMiddlewares
  ErrorStatuses,  \* what an error handler given to WithErrorHandler answers
  Statuses,       \* what a handler passes to WriteHeader
  MaxOptions,     \* bound: options given to New
  MaxWrites       \* bound: calls a handler makes on its ResponseWriter

RouteFields == [Timeout : Nat, Middlewares : Seq(Kinds)]

ASSUME RequestAssumption ==
  /\ Routes \subseteq RouteFields
  /\ Chains \subseteq Seq(Kinds)
  /\ ErrorStatuses \subseteq 200..599 /\ Statuses \subseteq 100..599
  /\ MaxOptions \in Nat /\ MaxWrites \in Nat

NoStatus == 0
StatusOK == 200
StatusInternalServerError == 500
StatusServiceUnavailable == 503

VARIABLES
  options,   \* the options given to New so far
  settings,  \* what they have made of the defaults
  timeout,   \* Route.Timeout of the route
  own,       \* the middlewares of the route
  requestID, \* whether the client has sent an X-Request-ID
  phase,     \* of the server, then of the goroutine that serves the request
  handler,   \* what the handler of the route has come to
  writes,    \* calls it has made on its ResponseWriter
  bodyFirst, \* whether the first of them wrote a body
  buffer,    \* status in the response TimeoutHandler buffers
  expired,   \* whether TimeoutHandler has answered in place of the handler
  rw         \* the responseWriter; sent and body are what the client gets:
             \* the status, and how many pieces of a body

server == <<options, settings>>
route == <<server, timeout, own, requestID>>
vars == <<route, phase, handler, writes, bodyFirst, buffer, expired, rw>>

(* mutant: the responseWriter starts at zero *)
StartsAtZero == [status |-> 0, wroteHeader |-> FALSE, sent |-> NoStatus, body |-> 0]

newResponseWriter ==
  [status |-> StatusOK, wroteHeader |-> FALSE, sent |-> NoStatus, body |-> 0]

defaultSettings ==
  [globalMiddlewares |-> <<>>, errorHandler |-> StatusInternalServerError,
   routes |-> <<>>]

Init ==
  /\ options = <<>>
  /\ settings = defaultSettings
  /\ timeout = 0
  /\ own = <<>>
  /\ requestID = FALSE
  /\ phase = "options"
  /\ handler = "none"
  /\ writes = 0
  /\ bodyFirst = FALSE
  /\ buffer = NoStatus
  /\ expired = FALSE
  /\ rw = newResponseWriter

(* One more option of New, in any order and number. *)
Given(option) ==
  /\ phase = "options"
  /\ Len(options) < MaxOptions
  /\ options' = Append(options, option)
  /\ UNCHANGED <<timeout, own, requestID, phase, handler, writes, bodyFirst,
                 buffer, expired, rw>>

WithMiddlewares(middlewares) ==
  /\ Given([to |-> "globalMiddlewares", middlewares |-> middlewares])
  /\ settings' = [settings EXCEPT !.globalMiddlewares = @ \o middlewares]

(* mutant: the first error handler stays *)
FirstErrorHandler(status) ==
  /\ Given([to |-> "errorHandler", status |-> status])
  /\ settings' = [settings EXCEPT !.errorHandler =
                     IF @ = StatusInternalServerError THEN status ELSE @]

WithErrorHandler(status) ==
  /\ Given([to |-> "errorHandler", status |-> status])
  /\ settings' = [settings EXCEPT !.errorHandler = status]

WithRoutes(r) ==
  /\ Given([to |-> "routes", route |-> r])
  /\ settings' = [settings EXCEPT !.routes = Append(@, r)]

(* New has built the routes; a request arrives that the router takes to one *)
(* of them.                                                                 *)
Arrive ==
  /\ phase = "options"
  /\ \E i \in DOMAIN settings.routes :
       /\ timeout' = settings.routes[i].Timeout
       /\ own' = settings.routes[i].Middlewares
  /\ requestID' \in BOOLEAN
  /\ phase' = "serving"
  /\ handler' = "running"
  /\ UNCHANGED <<server, writes, bodyFirst, buffer, expired, rw>>

(* mutant: the comparison the wrong way round *)
NegativeTimeoutsOnly == timeout < 0

HasTimeoutHandler == timeout > 0

(* The statuses net/http sends at once, with the final one still to come.   *)
Informational(code) == code < 200 /\ code # 101

(* net/http keeps the first status that is not informational.               *)
FirstStatus(sent, code) ==
  IF sent = NoStatus /\ ~Informational(code) THEN code ELSE sent

(* mutant: the last status is the one recorded *)
RecordsLast(w, code) ==
  [status |-> code, wroteHeader |-> TRUE,
   sent |-> FirstStatus(w.sent, code), body |-> w.body]

WriteHeader(w, code) ==
  [status      |-> IF w.wroteHeader THEN w.status ELSE code,
   wroteHeader |-> TRUE,
   sent        |-> FirstStatus(w.sent, code),
   body        |-> w.body]

(* net/http answers 200 when nothing has set a status.                      *)
ImplicitOK(w) == [w EXCEPT !.sent = FirstStatus(@, StatusOK)]

(* responseWriter has no Write of its own: it is not told of the status the *)
(* one it embeds may send.                                                  *)
Write(w) == [ImplicitOK(w) EXCEPT !.body = @ + 1]

(* What the handler does to the ResponseWriter it was given.  The buffer of *)
(* TimeoutHandler keeps the first status and ignores a handler that is late.*)
SetStatus(code) ==
  IF HasTimeoutHandler
  THEN /\ buffer' = IF expired \/ buffer # NoStatus THEN buffer ELSE code
       /\ UNCHANGED rw
  ELSE /\ rw' = WriteHeader(rw, code)
       /\ UNCHANGED buffer

(* mutant: the handler keeps the ResponseWriter of the server *)
WritesUnbuffered == rw' = Write(rw) /\ UNCHANGED buffer

WriteBody ==
  IF HasTimeoutHandler
  THEN /\ buffer' = IF expired \/ buffer # NoStatus THEN buffer ELSE StatusOK
       /\ UNCHANGED rw
  ELSE /\ rw' = Write(rw)
       /\ UNCHANGED buffer

HandlerSetsStatus(code) ==
  /\ handler = "running" /\ writes < MaxWrites
  /\ SetStatus(code)
  /\ writes' = writes + 1
  /\ UNCHANGED <<route, phase, handler, bodyFirst, expired>>

HandlerWritesBody ==
  /\ handler = "running" /\ writes < MaxWrites
  /\ WriteBody
  /\ writes' = writes + 1
  /\ bodyFirst' = (bodyFirst \/ writes = 0)
  /\ UNCHANGED <<route, phase, handler, expired>>

HandlerReturns ==
  /\ handler = "running"
  /\ handler' = "done"
  /\ UNCHANGED <<route, phase, writes, bodyFirst, buffer, expired, rw>>

(* The handler returns an error, and the error handler answers.             *)
HandlerFails ==
  /\ handler = "running"
  /\ handler' = "failed"
  /\ SetStatus(settings.errorHandler)
  /\ UNCHANGED <<route, phase, writes, bodyFirst, expired>>

(* Nothing in the server recovers a panic; TimeoutHandler passes it on.     *)
HandlerPanics ==
  /\ handler = "running"
  /\ handler' = "panicked"
  /\ UNCHANGED <<route, phase, writes, bodyFirst, buffer, expired, rw>>

(* The handler has returned.  TimeoutHandler copies the buffered response,  *)
(* a status first and then a body.  The deferred function of NewLogRequest  *)
(* then reports the status recorded: rw.status from here on.                *)
ServeReturns ==
  /\ phase = "serving"
  /\ handler \in {"done", "failed"}
  /\ phase' = "logged"
  /\ rw' = IF HasTimeoutHandler
           THEN Write(WriteHeader(rw, IF buffer = NoStatus THEN StatusOK ELSE buffer))
           ELSE rw
  /\ UNCHANGED <<route, handler, writes, bodyFirst, buffer, expired>>

(* The timeout is over, or the client has gone, even if the handler returns *)
(* at the same time.                                                        *)
Expire ==
  /\ HasTimeoutHandler
  /\ phase = "serving"
  /\ phase' = "logged"
  /\ expired' = TRUE
  /\ rw' = Write(WriteHeader(rw, StatusServiceUnavailable))
  /\ UNCHANGED <<route, handler, writes, bodyFirst, buffer>>

(* net/http completes the response.                                         *)
FinishRequest ==
  /\ phase = "logged"
  /\ phase' = "finished"
  /\ rw' = ImplicitOK(rw)
  /\ UNCHANGED <<route, handler, writes, bodyFirst, buffer, expired>>

(* The panic reaches net/http, which closes the connection.  The deferred   *)
(* function has run on the way.                                             *)
Abort ==
  /\ phase = "serving"
  /\ handler = "panicked"
  /\ phase' = "aborted"
  /\ UNCHANGED <<route, handler, writes, bodyFirst, buffer, expired, rw>>

Handle ==
  \/ \E code \in Statuses : HandlerSetsStatus(code)
  \/ HandlerWritesBody
  \/ HandlerReturns
  \/ HandlerFails
  \/ HandlerPanics

Serve == ServeReturns \/ Expire \/ FinishRequest \/ Abort

Configure ==
  \/ \E middlewares \in Chains : WithMiddlewares(middlewares)
  \/ \E status \in ErrorStatuses : WithErrorHandler(status)
  \/ \E r \in Routes : WithRoutes(r)
  \/ Arrive

Next == Configure \/ Handle \/ Serve

Spec == Init /\ [][Next]_vars

(* The server goes on; a handler may never return.                          *)
FairSpec == Spec /\ WF_vars(Serve)

-----------------------------------------------------------------------------
Codes == 100..599

Responses ==
  [status : Codes, wroteHeader : BOOLEAN,
   sent : Codes \union {NoStatus}, body : Nat]

Options ==
  [to : {"globalMiddlewares"}, middlewares : Seq(Kinds)] \union
  [to : {"errorHandler"}, status : 200..599] \union
  [to : {"routes"}, route : RouteFields]

Settings ==
  [globalMiddlewares : Seq(Kinds), errorHandler : 200..599,
   routes : Seq(RouteFields)]

TypeOK ==
  /\ options \in Seq(Options) /\ Len(options) <= MaxOptions
  /\ settings \in Settings
  /\ timeout \in Nat /\ own \in Seq(Kinds)
  /\ requestID \in BOOLEAN
  /\ phase \in {"options", "serving", "logged", "finished", "aborted"}
  /\ handler \in {"none", "running", "done", "failed", "panicked"}
  /\ writes \in 0..MaxWrites
  /\ bodyFirst \in BOOLEAN
  /\ buffer \in Codes \union {NoStatus}
  /\ expired \in BOOLEAN
  /\ rw \in Responses

(* The status in the metrics is "the one the client actually receives"      *)
(* (server.go:280-281), for every request that gets an answer.              *)
RecordedStatus == phase = "finished" => rw.status = rw.sent

(* A body went out without a status, and a status, or an error, came after. *)
StatusTooLate == timeout = 0 /\ bodyFirst /\ rw.wroteHeader

(* It is the one recorded for every handler on a route with a Timeout, and  *)
(* on the others unless the handler was too late to choose it.              *)
RecordedUnlessLate == ~StatusTooLate => RecordedStatus

(* status is what the error handler of the last WithErrorHandler answers, or *)
(* 500 where no option sets one.                                            *)
LastErrorHandler(status) ==
  \/ /\ status = StatusInternalServerError
     /\ \A i \in DOMAIN options : options[i].to # "errorHandler"
  \/ \E i \in DOMAIN options :
       /\ options[i].to = "errorHandler" /\ options[i].status = status
       /\ \A j \in (i + 1)..Len(options) : options[j].to # "errorHandler"

(* A request whose handler failed before it wrote anything is answered by   *)
(* the error handler installed last, even if its route was added before     *)
(* (server.go:89-114), unless its timeout came first.                       *)
ErrorsReachClient ==
  phase = "finished" /\ handler = "failed" /\ writes = 0 /\ ~expired
    => LastErrorHandler(rw.sent)

(* Once the request is reported, a handler that is still running changes    *)
(* neither what was reported nor what the client gets.                      *)
LateHandlerIsSilent ==
  [][phase # "serving" /\ phase' = phase => UNCHANGED rw]_vars

(* Route.Timeout "is honoured by the server" (server.go:20): the client is  *)
(* answered, or its connection is closed, even if the handler never returns.*)
TimeoutAnswers == timeout > 0 ~> phase \in {"finished", "aborted"}

(* The lists of middlewares the options have given, one for each option.    *)
ListsGiven ==
  [i \in DOMAIN options |->
     IF options[i].to = "globalMiddlewares" THEN options[i].middlewares ELSE <<>>]

(* All middlewares the request passes, in the order they were given in, and *)
(* what is in its context behind them.                                      *)
AllGiven == FlattenSeq(ListsGiven) \o own
EntryContext == ContextReached(Route(settings.globalMiddlewares, own), requestID)

IsGiven(kind) == \E i \in DOMAIN AllGiven : AllGiven[i] = kind

(* A middleware of that kind stands behind every Logger.                    *)
NoLoggerAfter(kind) ==
  \E i \in DOMAIN AllGiven :
    /\ AllGiven[i] = kind
    /\ \A j \in (i + 1)..Len(AllGiven) : AllGiven[j] # "Logger"

(* The request log is written with the logger of the application if there   *)
(* is a Logger (doc.go:34-35), whichever option or route it belongs to; it  *)
(* has every field that is set with no Logger to follow, none that no       *)
(* middleware sets, and the metrics client wherever Metrics stands.         *)
EntryCorrelated ==
  /\ NoLoggerAfter("TraceID") => "trace-id" \in EntryContext.fields
  /\ NoLoggerAfter("RequestID") /\ requestID => "request-id" \in EntryContext.fields
  /\ "trace-id" \in EntryContext.fields => IsGiven("TraceID")
  /\ "request-id" \in EntryContext.fields => IsGiven("RequestID") /\ requestID
  /\ EntryContext.config = "app" <=> IsGiven("Logger")
  /\ EntryContext.metric <=> IsGiven("Metrics")

(* TraceID "adds it to the log fields, so every entry from one request can  *)
(* be correlated" (middlewares.go:43-45), wherever TraceID stands: "a value *)
(* attached once at the edge appears on every later entry" (logrus.go       *)
(* :171-173).  Violated: a Logger that follows takes its own logger.        *)
TraceOnEntry == IsGiven("TraceID") => "trace-id" \in EntryContext.fields
=============================================================================
