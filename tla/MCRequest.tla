----------------------------- MODULE MCRequest ------------------------------
(***************************************************************************)
(* Instances of Request for TLC: up to three options, over middlewares in   *)
(* either order of Logger and what it discards.                             *)
(***************************************************************************)
EXTENDS Request

MCChains == {<<"Logger">>, <<"RequestID", "TraceID">>, <<"Metrics">>}

MCRoutes ==
  [Timeout : {0}, Middlewares : {<<>>, <<"Logger", "TraceID">>}] \union
  [Timeout : {1}, Middlewares : {<<"TraceID", "Logger">>, <<"TraceID", "Metrics">>}]

TracedRoute == [Timeout : {0}, Middlewares : {<<"TraceID", "Logger">>}]

PlainRoute == [Timeout : {0}, Middlewares : {<<>>}]
=============================================================================
