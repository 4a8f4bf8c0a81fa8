------------------------------- MODULE Device -------------------------------
(***************************************************************************)
(* What Device.transceive (src/src/desfire/devices/base.py) promises: send *)
(* a command, wait, and return the answer to it, or none.  Commands are    *)
(* numbered in the order they are sent in; 0 stands for no command and for *)
(* no answer.                                                              *)
(***************************************************************************)
EXTENDS Naturals

VARIABLES
  number,   \* the last command sent
  busy,     \* transceive is running
  executed, \* the last command the card carried out
  result    \* the command whose answer the last transceive returned

vars == <<number, busy, executed, result>>

Init ==
  /\ number = 0
  /\ busy = FALSE
  /\ executed = 0
  /\ result = 0

Send ==
  /\ ~busy
  /\ number' \in Nat
  /\ number' > number
  /\ busy' = TRUE
  /\ result' = 0
  /\ UNCHANGED executed

\* The card carries out a command at most once and in order, though perhaps after the
\* host gave it up.
Execute ==
  /\ executed' \in executed + 1 .. number
  /\ UNCHANGED <<number, busy, result>>

\* The answer returned is the answer to this command, and the card carried it out.
Answer ==
  /\ busy
  /\ executed = number
  /\ busy' = FALSE
  /\ result' = number
  /\ UNCHANGED <<number, executed>>

\* transceive raises, or returns nothing.
Fail ==
  /\ busy
  /\ busy' = FALSE
  /\ UNCHANGED <<number, executed, result>>

Next == Send \/ Execute \/ Answer \/ Fail

Spec == Init /\ [][Next]_vars

=============================================================================
