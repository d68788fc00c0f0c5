------------------------------- MODULE Ledger -------------------------------
(******************************************************************************)
(* What the command executor and the kernel store promise together: a         *)
(* command is a unit. Its record, its events, its change of the runtime       *)
(* state and the next control version become durable in one step, once per    *)
(* idempotency key, and nothing else changes any of them.                     *)
(******************************************************************************)
EXTENDS Naturals

CONSTANTS
  Command,   \* the commands clients can make
  KeyOf,     \* the idempotency key of each
  Silent     \* the commands that leave the control version alone

VARIABLES
  entries,   \* the recorded commands
  applied,   \* how often the change of each command is in the durable state
  logged,    \* how often its events are in the log
  version    \* the control version

ledger == <<entries, applied, logged, version>>

Init ==
  /\ entries = {}
  /\ applied = [c \in Command |-> 0]
  /\ logged = [c \in Command |-> 0]
  /\ version = 0

Enter(c) ==
  /\ \A d \in entries : KeyOf[d] # KeyOf[c]
  /\ entries' = entries \cup {c}
  /\ applied' = [applied EXCEPT ![c] = @ + 1]
  /\ logged' = [logged EXCEPT ![c] = @ + 1]
  /\ version' = IF c \in Silent THEN version ELSE version + 1

Next == \E c \in Command : Enter(c)

Spec == Init /\ [][Next]_ledger
=============================================================================
