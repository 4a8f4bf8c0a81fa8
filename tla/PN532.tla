------------------------------- MODULE PN532 -------------------------------
(***************************************************************************)
(* PN532UARTDevice (src/src/desfire/devices/pn532.py): a driver that sends *)
(* commands to a PN532 over a serial line, waits for its acknowledgment    *)
(* and then for its answer.  Neither of the two says which command it      *)
(* belongs to: an acknowledgment is always the same six bytes, and an      *)
(* answer names the kind of command only.                                  *)
(*                                                                         *)
(* The serial port has an input buffer; time is how late things arrive:    *)
(* a wait times out whenever the buffer is empty.  The chip, the card and  *)
(* the line are external.                                                  *)
(***************************************************************************)
EXTENDS Naturals, Sequences

CONSTANTS
  None,         \* Python's None
  Habits,       \* whether the caller of transceive lets the line fall silent first
  ReadTimeout,  \* the serial port was opened with a timeout for reads
  MaxFrames,    \* bound: commands sent
  MaxFaults     \* bound: frames lost or damaged

ASSUME ConstantsAssumption ==
  /\ Habits \subseteq BOOLEAN
  /\ ReadTimeout \in BOOLEAN
  /\ MaxFrames \in Nat /\ MaxFaults \in Nat

\* GetFirmwareVersion, SAMConfiguration, InListPassiveTarget, InDataExchange.
Cmds == {"firmware", "sam", "list", "exchange"}

\* A command, by its number; a frame from the chip, by the command it answers and
\* whether that succeeded.
Commands == [cmd : Cmds, n : Nat]
Frames == [kind : {"ack", "answer", "noise"}, cmd : Cmds, n : Nat, ok : BOOLEAN]
Noise == [kind |-> "noise", cmd |-> "exchange", n |-> 0, ok |-> FALSE]

\* What the driver is in: a call of a function, waiting for the one or the other.
Calls == [fn : Cmds \cup {"wait"}, at : {"ack", "answer"}]

\* None is none of the values it stands in for.
ASSUME NoneAssumption == None \notin Commands \cup Frames \cup Calls

VARIABLES
  todo,     \* functions the constructor has still to call; empty for a driver in use
  call,     \* the function on the stack, or None
  result,   \* the answer the last transceive returned, or None
  exchange, \* the number of its command
  buffer,   \* frames in the input buffer of the serial port
  sent,     \* commands on their way to the chip
  wire,     \* frames on their way to the host
  chip,     \* the command the chip works on, or None
  listed,   \* the chip has found a card
  executed, \* the last command the card carried out
  waits,    \* the habit of the caller
  frames, faults \* how much of the bounds is used up

hostVars == <<todo, call, result, exchange, waits>>
chipVars == <<chip, listed, executed>>
vars == <<hostVars, buffer, sent, wire, chipVars, frames, faults>>

\* __init__: firmware version, configuration, start to listen for a card.
Constructor == <<"firmware", "sam", "list">>

TypeOK ==
  /\ todo \in Seq(Cmds)
  /\ call \in Calls \cup {None}
  /\ result \in [kind : {"answer"}, cmd : {"exchange"}, n : Nat, ok : {TRUE}] \cup {None}
  /\ exchange \in Nat
  /\ buffer \in Seq(Frames)
  /\ sent \in Seq(Commands)
  /\ wire \in Seq(Frames)
  /\ chip \in Commands \cup {None}
  /\ listed \in BOOLEAN
  /\ executed \in Nat
  /\ waits \in Habits
  /\ frames \in 0 .. MaxFrames
  /\ faults \in 0 .. MaxFaults

Init ==
  /\ todo = Constructor
  /\ call = None
  /\ result = None
  /\ exchange = 0
  /\ buffer = <<>>
  /\ sent = <<>>
  /\ wire = <<>>
  /\ chip = None
  /\ listed = FALSE
  /\ executed = 0
  /\ waits \in Habits
  /\ frames = 0
  /\ faults = 0

-----------------------------------------------------------------------------
(* Sending                                                                 *)

\* Seeded bug: what is in the input buffer stays there.
KeepBuffer == buffer

\* _write_data empties the input buffer before it writes.
BufferBeforeWrite == <<>>

\* _send_command up to its first wait.
SendCommand(cmd) ==
  /\ call = None
  /\ frames < MaxFrames
  /\ frames' = frames + 1
  /\ buffer' = BufferBeforeWrite
  /\ sent' = Append(sent, [cmd |-> cmd, n |-> frames + 1])
  /\ call' = [fn |-> cmd, at |-> "ack"]
  /\ UNCHANGED <<todo, waits, wire, chipVars, faults>>

Construct ==
  /\ todo # <<>>
  /\ SendCommand(Head(todo))
  /\ UNCHANGED <<result, exchange>>

Silent == sent = <<>> /\ wire = <<>>

Transceive ==
  /\ todo = <<>>
  /\ waits => Silent
  /\ SendCommand("exchange")
  /\ result' = None
  /\ exchange' = frames + 1

\* wait_for_card sends nothing: it waits for the answer to the constructor's last command.
WaitForCard ==
  /\ todo = <<>>
  /\ call = None
  /\ call' = [fn |-> "wait", at |-> "answer"]
  /\ UNCHANGED <<todo, result, exchange, waits, buffer, sent, wire, chipVars, frames, faults>>

-----------------------------------------------------------------------------
(* Waiting and reading                                                     *)

\* A function returns nothing, or raises, or is done.  The constructor goes on, or the
\* object is given up and constructed again; an exception of its last function is caught.
GoOn == todo' = IF todo = <<>> THEN <<>> ELSE Tail(todo)
GoOnUnless(fns) == IF call.fn \in fns THEN todo' = Constructor ELSE GoOn

ReturnNothing == call' = None /\ GoOnUnless({"firmware"}) /\ UNCHANGED <<result, exchange>>
Raise == call' = None /\ GoOnUnless({"firmware", "sam"}) /\ UNCHANGED <<result, exchange>>

Reading == call # None /\ buffer # <<>> /\ UNCHANGED <<waits, sent, wire, chipVars, frames, faults>>

\* What is left of a buffer when a number of bytes was read that need not end with a
\* frame: the frames after the last one touched, and perhaps the rest of that one.
Leftovers ==
  LET After(i) == SubSeq(buffer, i + 1, Len(buffer))
  IN  {rest \o After(i) : rest \in {<<>>, <<Noise>>}, i \in 1 .. Len(buffer)}

\* Seeded bug: the driver waits until something comes.
WaitOn == FALSE /\ UNCHANGED vars

\* _wait_ready: nothing came within the timeout.
TimeOut ==
  /\ call # None
  /\ buffer = <<>>
  /\ ReturnNothing
  /\ UNCHANGED <<waits, buffer, sent, wire, chipVars, frames, faults>>

\* The six bytes are those of an acknowledgment, whichever it is.
ReadAck ==
  /\ Reading
  /\ call.at = "ack"
  /\ Head(buffer).kind = "ack"
  /\ buffer' = Tail(buffer)
  /\ IF call.fn = "list"
     THEN call' = None /\ GoOn
     ELSE call' = [call EXCEPT !.at = "answer"] /\ UNCHANGED todo
  /\ UNCHANGED <<result, exchange>>

\* "Did not receive expected ACK": six bytes are gone, the rest of the frame stays.
NoAck ==
  /\ Reading
  /\ call.at = "ack"
  /\ Head(buffer).kind # "ack"
  /\ buffer' \in Leftovers
  /\ Raise

\* Two functions read exactly the frame they expect; the others read up to the largest
\* one, so the read ends with the timeout of the port and takes all there is.
ReadsExactly == call.fn \in {"firmware", "sam"}
ReadFrame == Reading /\ call.at = "answer" /\ (ReadTimeout \/ ReadsExactly)

\* Seeded bug: the status of an exchange is not looked at.
AnyStatus ==
  /\ Head(buffer).kind = "answer"
  /\ Head(buffer).cmd = IF call.fn = "wait" THEN "list" ELSE call.fn

\* Checksums, the command, and the status of an exchange.
Valid ==
  /\ Head(buffer).kind = "answer"
  /\ Head(buffer).cmd = IF call.fn = "wait" THEN "list" ELSE call.fn
  /\ call.fn = "exchange" => Head(buffer).ok

ReadAnswer ==
  /\ ReadFrame
  /\ Valid
  /\ buffer' = IF ReadsExactly THEN Tail(buffer) ELSE <<>>
  /\ call' = None
  /\ GoOn
  /\ result' = IF call.fn = "exchange" THEN Head(buffer) ELSE result
  /\ UNCHANGED exchange

RefuseAnswer ==
  /\ ReadFrame
  /\ ~Valid
  /\ IF ReadsExactly THEN buffer' \in Leftovers ELSE buffer' = <<>>
  /\ Raise

-----------------------------------------------------------------------------
(* The chip, the card and the line: external                               *)

ToHost(kind, ok) == [kind |-> kind, cmd |-> chip.cmd, n |-> chip.n, ok |-> ok]

\* A command ends the one the chip works on, and is acknowledged.
ChipReceive ==
  /\ sent # <<>>
  /\ sent' = Tail(sent)
  /\ chip' = Head(sent)
  /\ listed' = (listed /\ chip'.cmd # "list")
  /\ wire' = Append(wire, ToHost("ack", TRUE)')
  /\ UNCHANGED <<hostVars, buffer, executed, frames, faults>>

CardExecute ==
  /\ chip # None
  /\ chip.cmd = "exchange"
  /\ listed
  /\ executed < chip.n
  /\ executed' = chip.n
  /\ UNCHANGED <<hostVars, buffer, sent, wire, chip, listed, frames, faults>>

\* An exchange succeeds if the card carried it out; it may fail even so.
ChipAnswer(ok) ==
  /\ chip # None
  /\ IF chip.cmd = "exchange" THEN ok => executed = chip.n ELSE ok
  /\ wire' = Append(wire, ToHost("answer", ok))
  /\ listed' = (listed \/ chip.cmd = "list")
  /\ chip' = None
  /\ UNCHANGED <<hostVars, buffer, sent, executed, frames, faults>>

Arrive ==
  /\ wire # <<>>
  /\ buffer' = Append(buffer, Head(wire))
  /\ wire' = Tail(wire)
  /\ UNCHANGED <<hostVars, sent, chipVars, frames, faults>>

Fault == faults < MaxFaults /\ faults' = faults + 1

\* A command is lost or damaged: the chip does not hear it.  So does a write that fails.
LoseCommand ==
  /\ sent # <<>>
  /\ Fault
  /\ sent' = Tail(sent)
  /\ UNCHANGED <<hostVars, buffer, wire, chipVars, frames>>

\* A frame from the chip is lost or damaged.
SpoilFrame ==
  /\ wire # <<>>
  /\ Fault
  /\ wire' \in {Tail(wire), <<Noise>> \o Tail(wire)}
  /\ UNCHANGED <<hostVars, buffer, sent, chipVars, frames>>

-----------------------------------------------------------------------------

Caller == Construct \/ Transceive \/ WaitForCard
Host == TimeOut \/ ReadAck \/ NoAck \/ ReadAnswer \/ RefuseAnswer
Chip == ChipReceive \/ CardExecute \/ (\E ok \in BOOLEAN : ChipAnswer(ok)) \/ Arrive
Line == LoseCommand \/ SpoilFrame

\* The caller has used up the bound.
Rest == frames = MaxFrames /\ call = None /\ UNCHANGED vars

Next == Caller \/ Host \/ Chip \/ Line \/ Rest

\* Python runs a function to its end; nothing is assumed of the chip or the line.
Spec == Init /\ [][Next]_vars
FairSpec == Spec /\ WF_vars(Host)

-----------------------------------------------------------------------------
(* Properties                                                              *)

\* For a caller that waits the driver keeps what Device promises: transceive returns the
\* answer to its own command, which the card carried out once, or nothing.
Contract == INSTANCE Device WITH
  number <- exchange,
  busy   <- call # None /\ call.fn = "exchange",
  result <- IF result = None THEN 0 ELSE result.n
KeepsContract ==
  /\ waits => Contract!Init
  /\ [][waits => [Contract!Next]_(Contract!vars)]_vars

\* The answer transceive returns is the answer to the command it sent (pn532.py, transceive:
\* "Send in APDU request and wait for the response").
AnswerToThisCommand == result # None => result.n = exchange

\* Every function returns or raises (pn532.py, _call_function: "Will wait up to timeout
\* seconds for a response").
EveryCallReturns == call # None ~> call = None

=============================================================================
