------------------------------- MODULE Files -------------------------------
(***************************************************************************)
(* The file methods of DESFire (src/src/desfire/DESFire.py) by what they   *)
(* carry: settings and offsets as bytes, reads in chunks, writes in one    *)
(* frame, against a card that keeps files.  Selection, rights and secure   *)
(* messaging are the subject of Desfire; here the card may refuse any      *)
(* command and the device may lose any command or answer.                  *)
(***************************************************************************)
EXTENDS Encodings, FiniteSets

CONSTANTS
  FileIds,
  Sizes,           \* file sizes in the settings the caller creates and reads with
  Modes,           \* values of communication modes
  PermissionSets,  \* permissions the caller creates files with
  Offsets,         \* offsets the caller writes at
  Contents,        \* the bytes files hold
  Datas,           \* byte lists the caller writes
  Zero,            \* the byte a new file is filled with
  Standard,        \* value of the file type of standard data files
  OtherTypes,      \* values of other file types on the card
  Chunk,           \* how many bytes read_file_data asks for at a time
  MaxFrameSize,
  None

ASSUME FilesAssumption ==
  /\ Sizes \subseteq Nat /\ Modes \subseteq Nat /\ Offsets \subseteq Nat
  /\ PermissionSets \subseteq Permissions
  /\ Standard \in Nat /\ OtherTypes \subseteq Nat \ {Standard}
  /\ Chunk \in Nat \ {0} /\ MaxFrameSize \in Nat
  /\ Zero \in Contents /\ Datas \subseteq Seq(Contents)
  /\ None \notin FileIds

VARIABLES
  files,     \* the files of the card, None where there is none
  call,      \* the method on the stack with its arguments, or None
  progress,  \* of read_file_data: where it is and what it has read
  request,   \* the command on its way to the card, or None
  response,  \* the answer on its way to the host, or None
  result     \* what the last method returned, that it raised, or None

vars == <<files, call, progress, request, response, result>>

\* The settings as get_file_settings returns them, from the file the card keeps.
SettingsOf(file) == ParseSettings(<<file.type>> \o file.header)

\* What the files are for the caller.
View(id) ==
  IF files[id] = None THEN None
  ELSE [settings |-> SettingsOf(files[id]), bytes |-> files[id].bytes]

Changing == {"create", "write", "delete"}

Store ==
  INSTANCE FileStore WITH
    files <- [id \in FileIds |-> View(id)],
    done <- call # None /\ call.op \in Changing /\ response # None /\ response.ok

SizeOf(file) == FromThree(<<file.header[4], file.header[5], file.header[6]>>)

Calls ==
  [op : {"create"}, id : FileIds,
   settings : [type : {Standard}, encryption : Modes, permissions : PermissionSets,
               size : Sizes]]
    \cup [op : {"settings", "delete"}, id : FileIds]
    \cup [op : {"read"}, id : FileIds, size : Sizes]
    \cup [op : {"write"}, id : FileIds, offset : Offsets, data : Datas]

\* None is none of the values it stands in for: methods, files as the card and as the
\* caller has them, answers.
FileBytes == UNION {[0 .. n - 1 -> Contents] : n \in 0 .. Byte * Byte * Byte - 1}
CardFiles == [type : Nat, header : Seq(Nat), bytes : FileBytes]
Settings == [type : Nat, encryption : Nat, permissions : Permissions, size : Nat]
Responses == [ok : BOOLEAN, data : Seq(Contents \cup Nat)]

ASSUME NoneAssumption ==
  None \notin Calls \cup CardFiles \cup [settings : Settings, bytes : FileBytes] \cup Responses

FileOK(file) ==
  /\ file.type \in {Standard} \cup OtherTypes
  /\ Len(file.header) = 6
  /\ DOMAIN file.bytes = 0 .. SizeOf(file) - 1

TypeOK ==
  /\ \A id \in FileIds : files[id] # None => FileOK(files[id])
  /\ call \in Calls \cup {None}
  /\ progress.offset \in Nat /\ progress.left \in Nat
  /\ Len(progress.ret) = progress.offset
  /\ request # None => call # None /\ request.op = call.op /\ response = None
  /\ response # None => call # None /\ response.ok \in BOOLEAN

NotReading == [offset |-> 0, left |-> 0, ret |-> <<>>]

Init ==
  /\ files \in [FileIds -> {None} \cup
                  [type : OtherTypes, header : {<<0, 0, 0, 0, 0, 0>>}, bytes : {<<>>}]]
  /\ call = None
  /\ progress = NotReading
  /\ request = None
  /\ response = None
  /\ result = None

-----------------------------------------------------------------------------
(* The caller invokes a method                                             *)

Send(op, id, header, data) ==
  request' = [op |-> op, id |-> id, header |-> header, data |-> data]

Begin(method) ==
  /\ call = None
  /\ call' = method
  /\ response' = None
  /\ result' = None
  /\ UNCHANGED files

\* A method that raises before it sends anything.
Refuse ==
  /\ call = None
  /\ result' = Store!Raised
  /\ UNCHANGED <<files, call, progress, request, response>>

SettingsBytes(s) == <<s.encryption>> \o GetPermissions(s.permissions) \o ThreeBytes(s.size)

CreateStandardFile(id, s) ==
  IF FitsThree(s.size)
  THEN /\ Begin([op |-> "create", id |-> id, settings |-> s])
       /\ Send("create", id, SettingsBytes(s), <<>>)
       /\ progress' = NotReading
  ELSE Refuse

GetFileSettings(id) ==
  /\ Begin([op |-> "settings", id |-> id])
  /\ Send("settings", id, <<>>, <<>>)
  /\ progress' = NotReading

DeleteFile(id) ==
  /\ Begin([op |-> "delete", id |-> id])
  /\ Send("delete", id, <<>>, <<>>)
  /\ progress' = NotReading

\* Command, file number, offset and length take eight bytes of the frame.
MaxData == MaxFrameSize - 1 - 7

WriteFileData(id, offset, data) ==
  IF Len(data) <= MaxData /\ FitsThree(offset) /\ FitsThree(Len(data))
  THEN /\ Begin([op |-> "write", id |-> id, offset |-> offset, data |-> data])
       /\ Send("write", id, ThreeBytes(offset) \o ThreeBytes(Len(data)), data)
       /\ progress' = NotReading
  ELSE Refuse

Smaller(m, n) == IF m < n THEN m ELSE n

\* Seeded bug: the last byte is left for the next round, and so for ever.
AllButOne(left) == Smaller(left - 1, Chunk)

\* How many bytes the next READ_DATA asks for.
Count(left) == Smaller(left, Chunk)

SendRead(id, offset, left) ==
  Send("read", id, ThreeBytes(offset) \o ThreeBytes(Count(left)), <<>>)

\* The length comes from settings the caller has, which may be of an earlier file.  An
\* empty file is not asked for.
ReadFileData(id, size) ==
  /\ Begin([op |-> "read", id |-> id, size |-> size])
  /\ progress' = [offset |-> 0, left |-> size, ret |-> <<>>]
  /\ IF size > 0 THEN SendRead(id, 0, size) ELSE request' = None

-----------------------------------------------------------------------------
(* The card: external                                                      *)

Reply(ok, data) ==
  /\ request # None
  /\ response' = [ok |-> ok, data |-> data]
  /\ request' = None
  /\ UNCHANGED <<call, progress, result>>

CardCreate ==
  /\ request # None
  /\ request.op = "create"
  /\ files[request.id] = None
  /\ LET size == FromThree(<<request.header[4], request.header[5], request.header[6]>>)
     IN files' = [files EXCEPT ![request.id] =
                    [type |-> Standard, header |-> request.header,
                     bytes |-> [p \in 0 .. size - 1 |-> Zero]]]
  /\ Reply(TRUE, <<>>)

CardDelete ==
  /\ request # None
  /\ request.op = "delete"
  /\ files[request.id] # None
  /\ files' = [files EXCEPT ![request.id] = None]
  /\ Reply(TRUE, <<>>)

\* Offset and length of a request, as the card reads them.
From(r) == FromThree(<<r.header[1], r.header[2], r.header[3]>>)
Length(r) == FromThree(<<r.header[4], r.header[5], r.header[6]>>)

\* What lies within the file is read or written, and only that.
WithinFile ==
  /\ request # None
  /\ files[request.id] # None
  /\ From(request) + Length(request) <= SizeOf(files[request.id])

CardWrite ==
  /\ request # None
  /\ request.op = "write"
  /\ WithinFile
  /\ Length(request) = Len(request.data)
  /\ files' = [files EXCEPT ![request.id].bytes =
                 Store!Overlaid(@, From(request), request.data)]
  /\ Reply(TRUE, <<>>)

CardRead ==
  /\ request # None
  /\ request.op = "read"
  /\ WithinFile
  /\ UNCHANGED files
  /\ Reply(TRUE, Store!Part(files[request.id].bytes, From(request), Length(request)))

CardSettings ==
  /\ request # None
  /\ request.op = "settings"
  /\ files[request.id] # None
  /\ UNCHANGED files
  /\ Reply(TRUE, <<files[request.id].type>> \o files[request.id].header)

CardRefuse == UNCHANGED files /\ Reply(FALSE, <<>>)

-----------------------------------------------------------------------------
(* The method goes on                                                      *)

End(value) ==
  /\ call' = None
  /\ progress' = NotReading
  /\ request' = None
  /\ response' = None
  /\ result' = value
  /\ UNCHANGED files

\* The device raises, whatever became of the command.
DeviceFails == call # None /\ End(Store!Raised)

\* _communicate raises for an error of the card.
CardError ==
  /\ response # None
  /\ ~response.ok
  /\ End(Store!Raised)

ReturnChange ==
  /\ response # None
  /\ response.ok
  /\ call.op \in Changing
  /\ End(Store!Returned(<<>>))

\* FileSettings.parse raises NotImplementedError for other file types.
ReturnSettings ==
  /\ response # None
  /\ response.ok
  /\ call.op = "settings"
  /\ LET settings == ParseSettings(response.data)
     IN End(IF settings.type = Standard THEN Store!Returned(settings) ELSE Store!Raised)

\* Seeded bug: the next chunk begins with the last byte of this one.
Overlapping ==
  [offset |-> progress.offset + Count(progress.left) - 1,
   left |-> progress.left - Count(progress.left),
   ret |-> progress.ret \o response.data]

\* Seeded bug: a chunk is put before those already read.
ReadAgain ==
  [offset |-> progress.offset + Count(progress.left),
   left |-> progress.left - Count(progress.left),
   ret |-> response.data \o progress.ret]

\* ret, ioffset and length after a chunk.
Progressed ==
  [offset |-> progress.offset + Count(progress.left),
   left |-> progress.left - Count(progress.left),
   ret |-> progress.ret \o response.data]

\* get_list raises OverflowError for an offset of more than three bytes; the card has
\* refused before it comes to that.
NextChunk ==
  /\ response # None
  /\ response.ok
  /\ call.op = "read"
  /\ Progressed.left > 0
  /\ IF FitsThree(Progressed.offset)
     THEN /\ progress' = Progressed
          /\ SendRead(call.id, Progressed.offset, Progressed.left)
          /\ response' = None
          /\ UNCHANGED <<files, call, result>>
     ELSE End(Store!Raised)

ReturnData ==
  /\ response # None
  /\ response.ok
  /\ call.op = "read"
  /\ Progressed.left = 0
  /\ End(Store!Returned(Progressed.ret))

ReturnEmpty ==
  /\ call # None
  /\ call.op = "read"
  /\ progress.left = 0
  /\ End(Store!Returned(progress.ret))

-----------------------------------------------------------------------------

Caller ==
  \E id \in FileIds :
    \/ \E e \in Modes, p \in PermissionSets, n \in Sizes :
         CreateStandardFile(id, [type |-> Standard, encryption |-> e, permissions |-> p,
                                 size |-> n])
    \/ GetFileSettings(id)
    \/ DeleteFile(id)
    \/ \E offset \in Offsets, data \in Datas : WriteFileData(id, offset, data)
    \/ \E size \in Sizes : ReadFileData(id, size)

Card ==
  CardCreate \/ CardDelete \/ CardWrite \/ CardRead \/ CardSettings \/ CardRefuse

Host ==
  CardError \/ ReturnChange \/ ReturnSettings \/ NextChunk \/ ReturnData \/ ReturnEmpty

Next == Caller \/ Card \/ Host \/ DeviceFails

Spec == Init /\ [][Next]_vars

\* The card answers what it is sent, or the device gives up, and the host goes on.
FairSpec == Spec /\ WF_vars(Card \/ Host \/ DeviceFails)

-----------------------------------------------------------------------------
(* Properties                                                              *)

\* Every file method does what FileStore promises: what was created and written is
\* what is returned, in one piece, whatever was refused or lost on the way.
IsFileStore == Store!Spec

\* What read_file_data has collected is what the file holds up to its offset, and the
\* chunks left make up the length it was called with.
ReadSoFar ==
  call # None /\ call.op = "read" =>
    /\ progress.offset + progress.left = call.size
    /\ progress.offset > 0 =>
         /\ files[call.id] # None
         /\ progress.offset <= SizeOf(files[call.id])
         /\ progress.ret = Store!Part(files[call.id].bytes, 0, progress.offset)

\* Every method comes back, read_file_data with any file size.
Completes == call # None ~> call = None

====
