----------------------------- MODULE MCConsumer -----------------------------
(***************************************************************************)
(* Instances of Consumer for TLC.  The messages cover what processMessage   *)
(* tells apart: a JSON payload that fits T (and loses a field when it is    *)
(* marshalled again), one the handler skips, one that does not unmarshal,   *)
(* and a message without a usable content type header.                      *)
(***************************************************************************)
EXTENDS Consumer

Header(value) == [key |-> ContentTypeHeaderKey, value |-> value]
Foreign       == [key |-> "traceparent", value |-> "json"]

MCPayloads     == {"order", "orderWithUnknownField", "ignored", "garbage"}
MCJSONPayloads == {"order", "orderWithUnknownField", "ignored"}
MCRemarshal ==
  [v \in MCJSONPayloads |-> IF v = "orderWithUnknownField" THEN "order" ELSE v]
MCSkippable == {"ignored"}

Valid   == [headers |-> <<Foreign, Header("json")>>,
            value |-> "orderWithUnknownField"]
Skipped == [headers |-> <<Header("avro"), Header("postgresql")>>,
            value |-> "ignored"]
Garbage == [headers |-> <<Header("json")>>, value |-> "garbage"]
Text    == [headers |-> <<Header("text")>>, value |-> "garbage"]
Bare    == [headers |-> <<Foreign>>, value |-> "order"]

(* Two errors the handler can wrap, one of them worth a retry, for 2 ticks. *)
Timed == <<[sets |-> "RetryableErrors", to |-> {"unavailable"}],
           [sets |-> "MaxElapsedTime", to |-> 2]>>

(* Two partitions, one with two messages in a row: one that is handled or   *)
(* dead-lettered, one dead-lettered as text, one skipped.                   *)
TwoPartitions == [p \in Partitions |->
  IF p = CHOOSE q \in Partitions : TRUE THEN <<Valid, Garbage>>
                                        ELSE <<Skipped>>]
(* One partition with two messages. *)
OnePartition == [p \in Partitions |-> <<Valid, Garbage>>]
(* For a content type string: JSON and text messages side by side. *)
TextPartition == [p \in Partitions |-> <<Valid, Text, Bare>>]
=============================================================================
