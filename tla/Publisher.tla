------------------------------ MODULE Publisher ------------------------------
(***************************************************************************)
(* What a caller of dispatcher.Dispatch may count on, without a producer, a *)
(* broker or clocks: a call that returns nil has its message on the topic,  *)
(* a call that returns an error leaves that open, and it may get there yet, *)
(* and a topic never forgets a message.  Consumer uses Dispatch in these    *)
(* terms; it lets a message that gets there late do so with the error.      *)
(***************************************************************************)
CONSTANT Calls

VARIABLES
  stored,    \* calls whose message is on the topic
  outcome    \* outcome[c]: "none" until c returned, then "nil" or "error"

vars == <<stored, outcome>>

Init ==
  /\ stored = {}
  /\ outcome = [c \in Calls |-> "none"]

Store(c) ==
  /\ stored' = stored \cup {c}
  /\ UNCHANGED outcome

Succeed(c) ==
  /\ outcome[c] = "none"
  /\ c \in stored
  /\ outcome' = [outcome EXCEPT ![c] = "nil"]
  /\ UNCHANGED stored

Fail(c) ==
  /\ outcome[c] = "none"
  /\ outcome' = [outcome EXCEPT ![c] = "error"]
  /\ UNCHANGED stored

Next == \E c \in Calls : Store(c) \/ Succeed(c) \/ Fail(c)

Spec == Init /\ [][Next]_vars
=============================================================================
