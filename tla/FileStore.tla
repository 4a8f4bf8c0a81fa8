----------------------------- MODULE FileStore -----------------------------
(***************************************************************************)
(* What the file methods of DESFire (src/src/desfire/DESFire.py) promise:  *)
(* a file is bytes with settings, a method changes it at most once and as  *)
(* a whole, and what is returned is what the file holds.  A method that    *)
(* raises may or may not have been carried out.                            *)
(***************************************************************************)
EXTENDS Naturals, Sequences

CONSTANTS
  FileIds,
  Zero,      \* the byte a new file is filled with
  Standard,  \* the type of the files create_standard_file creates
  None

VARIABLES
  files,   \* settings and bytes of each file, None if there is no such file
  call,    \* the method on the stack with its arguments, or None
  done,    \* whether the card has carried it out
  result   \* what the last method returned, that it raised, or None

vars == <<files, call, done, result>>

Raised == [ok |-> FALSE]
Returned(value) == [ok |-> TRUE, value |-> value]
NewFile(settings) ==
  [settings |-> settings, bytes |-> [p \in 0 .. settings.size - 1 |-> Zero]]

\* The bytes of a file from a position on, as a list.
Part(bytes, from, n) == [i \in 1 .. n |-> bytes[from + i - 1]]

\* Bytes that are written replace as many of the file's.
Overlaid(bytes, from, data) ==
  [p \in DOMAIN bytes |->
     IF from <= p /\ p < from + Len(data) THEN data[p - from + 1] ELSE bytes[p]]

Existing(id) == files[id] # None

\* Files the card already holds, of the types it does not create here.
Init ==
  /\ \A id \in FileIds : Existing(id) => files[id].settings.type # Standard
  /\ call = None
  /\ done = FALSE
  /\ result = None

Invoke ==
  /\ call = None
  /\ call' # None
  /\ done' = FALSE
  /\ result' = None
  /\ UNCHANGED files

\* Arguments the host does not send raise at once.
Refuse ==
  /\ call = None
  /\ result' = Raised
  /\ UNCHANGED <<files, call, done>>

Pending(op) == call # None /\ call.op = op /\ ~done

Create ==
  /\ Pending("create")
  /\ ~Existing(call.id)
  /\ files' = [files EXCEPT ![call.id] = NewFile(call.settings)]
  /\ done' = TRUE
  /\ UNCHANGED <<call, result>>

Write ==
  /\ Pending("write")
  /\ Existing(call.id)
  /\ files' = [files EXCEPT ![call.id].bytes = Overlaid(@, call.offset, call.data)]
  /\ done' = TRUE
  /\ UNCHANGED <<call, result>>

Delete ==
  /\ Pending("delete")
  /\ Existing(call.id)
  /\ files' = [files EXCEPT ![call.id] = None]
  /\ done' = TRUE
  /\ UNCHANGED <<call, result>>

\* What a method returns.
Answer ==
  CASE call.op = "settings" -> files[call.id].settings
    [] call.op = "read" -> Part(files[call.id].bytes, 0, call.size)
    [] OTHER -> <<>>

Return ==
  /\ call # None
  /\ call.op \in {"create", "write", "delete"} => done
  /\ call.op = "settings" => Existing(call.id)
  /\ call.op = "read" =>
       \/ call.size = 0
       \/ Existing(call.id) /\ call.size <= files[call.id].settings.size
  /\ call' = None
  /\ done' = FALSE
  /\ result' = Returned(Answer)
  /\ UNCHANGED files

Raise ==
  /\ call # None
  /\ call' = None
  /\ done' = FALSE
  /\ result' = Raised
  /\ UNCHANGED files

Next == Invoke \/ Refuse \/ Create \/ Write \/ Delete \/ Return \/ Raise

Spec == Init /\ [][Next]_vars

=============================================================================
