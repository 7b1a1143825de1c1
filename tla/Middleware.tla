----------------------------- MODULE Middleware -----------------------------
(***************************************************************************)
(* pkg/httpserver: the middlewares of a route, and the logger and the       *)
(* metrics client they pass on in the context of a request, with the        *)
(* functions of pkg/log and pkg/metrics they use.                           *)
(* The ones that only touch headers or the body have no name here.          *)
(***************************************************************************)
EXTENDS Integers, SequencesExt

Kinds == {"Logger", "RequestID", "TraceID", "Metrics"}
Fields == {"request-id", "trace-id"}

(* What a context carries: no logger, or one that is either built with the  *)
(* defaults of the package or the one of the application, with its fields;  *)
(* and, under a key of its own, perhaps a metrics client.                   *)
EmptyContext == [config |-> "none", fields |-> {}, metric |-> FALSE]

FromContext(ctx) ==
  IF ctx.config = "none" THEN [ctx EXCEPT !.config = "default"] ELSE ctx

WithFields(ctx, field) ==
  [FromContext(ctx) EXCEPT !.fields = @ \union {field}]

(* The logger given to the middleware takes the place of the one before.    *)
Logger(ctx) == [ctx EXCEPT !.config = "app", !.fields = {}]

(* Only an id that the client has sent is passed on.                        *)
RequestID(ctx, sent) == IF sent THEN WithFields(ctx, "request-id") ELSE ctx

TraceID(ctx) == WithFields(ctx, "trace-id")

Metrics(ctx) == [ctx EXCEPT !.metric = TRUE]

Through(middleware, ctx, sent) ==
  CASE middleware = "Logger"    -> Logger(ctx)
    [] middleware = "RequestID" -> RequestID(ctx, sent)
    [] middleware = "TraceID"   -> TraceID(ctx)
    [] middleware = "Metrics"   -> Metrics(ctx)

(* mutant: wrapped from the first one on, so that the last is outermost *)
WrapsInOrder(main, middlewares) ==
  FoldLeft(LAMBDA handler, m : <<m>> \o handler, main, middlewares)

(* Wraps main, from the last middleware to the first.  A handler is the      *)
(* sequence of its layers, outermost first.                                 *)
Middlewares(main, middlewares) ==
  FoldLeft(LAMBDA handler, i : <<middlewares[Len(middlewares) + 1 - i]>> \o handler,
           main, [i \in DOMAIN middlewares |-> i])

(* The router runs the middlewares of the server in the order of their      *)
(* options, then the handler of the route.                                  *)
Route(global, own) == global \o Middlewares(<<>>, own)

(* What NewLogRequest finds behind all layers.                              *)
ContextReached(layers, sent) ==
  FromContext(FoldLeft(LAMBDA ctx, m : Through(m, ctx, sent), EmptyContext, layers))
=============================================================================
