---------------------------- MODULE AtLeastOnce ----------------------------
(***************************************************************************)
(* What a consumer group promises about a topic, without goroutines,        *)
(* channels, retries, crashes or rebalancing: a message is resolved         *)
(* (handled, skipped or dead-lettered) only after the ones before it in its *)
(* partition, and the offset of the group is only put where every message   *)
(* below it is resolved.  A message may be resolved again and an offset may *)
(* go back, which is what a crash, a failed commit and a commit by a member *)
(* that no longer owns the partition can cause.                             *)
(***************************************************************************)
EXTENDS Integers

CONSTANTS
  Partitions,
  Length      \* Length[p]: number of messages of partition p

VARIABLES
  offset,     \* offset[p]: the next message the group is to receive
  resolved    \* the messages resolved so far

vars == <<offset, resolved>>

Message(p, o) == [part |-> p, offset |-> o]

(* The messages of a partition below an offset are all resolved. *)
ResolvedUpTo(p, end) == \A o \in 0..(end - 1) : Message(p, o) \in resolved

Init ==
  /\ offset = [p \in Partitions |-> 0]
  /\ resolved = {}

Resolve(p) ==
  \E o \in 0..(Length[p] - 1) :
    /\ ResolvedUpTo(p, o)
    /\ resolved' = resolved \cup {Message(p, o)}
    /\ UNCHANGED offset

Commit(p) ==
  \E o \in 1..Length[p] :
    /\ ResolvedUpTo(p, o)
    /\ offset' = [offset EXCEPT ![p] = o]
    /\ UNCHANGED resolved

Step == \E p \in Partitions : Resolve(p) \/ Commit(p)

Spec == Init /\ [][Step]_vars
=============================================================================
