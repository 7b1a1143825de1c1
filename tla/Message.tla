------------------------------- MODULE Message -------------------------------
(***************************************************************************)
(* The payload codecs of pkg/stream (message.go): how a Kafka message names *)
(* its encoding, how the consumer picks the codec on the way in and how a   *)
(* decoded payload is encoded again on the way to the dead letter topic.    *)
(*                                                                          *)
(* A payload is an uninterpreted value.  What a codec does with it is given *)
(* by two constants: which payloads encoding/json can unmarshal into the    *)
(* content type T of the consumer, and the payload that marshalling the     *)
(* result gives back.  The second is not the identity: fields that T does   *)
(* not declare are dropped.                                                 *)
(***************************************************************************)
EXTENDS Naturals, Sequences

CONSTANTS
  Payloads,          \* the byte strings a message can carry
  JSONPayloads,      \* those that json.Unmarshal accepts for the type T
  Remarshal,         \* json.Marshal(json.Unmarshal(v)), for v in JSONPayloads
  ContentIsString    \* TRUE when the content type T is string

ASSUME MessageAssumption ==
  /\ JSONPayloads \subseteq Payloads
  /\ Remarshal \in [JSONPayloads -> JSONPayloads]
  /\ ContentIsString \in BOOLEAN

jsonType     == "json"
textType     == "text"
postgresType == "postgresql"

ContentTypeHeaderKey == "DEVKIT_CONTENT_TYPE"

ErrUnknownMessageType == "ErrUnknownMessageType"

(* A header that names an encoding this package implements. *)
Recognised(header) ==
  /\ header.key = ContentTypeHeaderKey
  /\ header.value \in {jsonType, postgresType, textType}

(* The first recognised header decides; one with the right key and a value  *)
(* nobody knows is passed over, so a later one can still match.             *)
NewMessageType(headers) ==
  LET known == {i \in DOMAIN headers : Recognised(headers[i])}
      first == CHOOSE i \in known : \A j \in known : i <= j
  IN  IF known = {} THEN ErrUnknownMessageType
      ELSE IF headers[first].value = textType THEN textType ELSE jsonType

(* Whether Deserialize fills the content: json needs a payload that fits T, *)
(* text needs T to be string and then takes any bytes.                      *)
Deserializes(type, value) ==
  IF type = textType THEN ContentIsString ELSE value \in JSONPayloads

(* The two steps processMessage takes before it has a content. *)
Decodes(message) ==
  LET type == NewMessageType(message.headers)
  IN  type # ErrUnknownMessageType /\ Deserializes(type, message.value)

(* typeMessage.NewWithData(content), serialized: the codec stays, the bytes *)
(* are what that codec makes of the decoded content.                        *)
NewWithData(message) ==
  LET type == NewMessageType(message.headers)
  IN  [type  |-> type,
       value |-> IF type = textType THEN message.value
                                    ELSE Remarshal[message.value]]

(* stream.NewTextMessage(string(message.Value)): the raw bytes as text. *)
NewTextMessage(message) == [type |-> textType, value |-> message.value]

(* The Kafka message the dispatcher builds from a payload: one header, the  *)
(* content type; the headers of the message it came from are not carried.   *)
Produced(payload) ==
  [headers |-> <<[key |-> ContentTypeHeaderKey, value |-> payload.type]>>,
   value   |-> payload.value]
=============================================================================
