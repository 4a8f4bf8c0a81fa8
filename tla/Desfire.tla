------------------------------ MODULE Desfire ------------------------------
(***************************************************************************)
(* One DESFire object (src/src/desfire/DESFire.py) with its DESFireKey     *)
(* objects (src/src/desfire/key.py), talking to one card over a half       *)
(* duplex link (Device.transceive).                                        *)
(*                                                                         *)
(* Cryptography is symbolic.  The IV of a key is the chain of everything   *)
(* that went through its cipher since the IV was cleared; a MAC or a       *)
(* ciphertext is a Cipher: the key, the chain it ends and the mode.  Two   *)
(* of them are equal only if key and chain are, as for real blocks.        *)
(* The card is no part of the library: it is modelled by the answers the   *)
(* library expects of it, and by the errors and losses it has to handle.   *)
(***************************************************************************)
EXTENDS Naturals, Sequences

CONSTANTS
  Apps,         \* application ids, the card level application among them
  Picc,         \* the card level application, [0x00, 0x00, 0x00]
  KeyIds,       \* key numbers within an application
  KeyObjs,      \* DESFireKey objects the caller holds
  Secrets,      \* key data a caller can construct a DESFireKey with
  AesKeys,      \* which of the objects and the key data are of type AES ...
  TripleKeys,   \* ... and which of type 3K3DES; the others are 2K3DES
  Factory,      \* the key data of a key nobody has changed
  Payloads,     \* what one answer frame can carry
  FileModes,    \* communication modes of the files on the card (one file each)
  None,         \* Python's None
  Calls,        \* the public methods the caller uses
  LongAnswers,  \* the methods whose answer may take two frames
  MacsPlain,    \* methods that ask for a PLAIN answer, which a card in a
                \* session sends with a MAC nevertheless
  MaxCalls,     \* bound: public methods called
  MaxFaults,    \* bound: losses, damages, refusals and resets
  MaxChunks     \* bound: chunks of 48 bytes in a file

Modes == {"PLAIN", "CMAC", "ENCRYPTED"}

\* Methods that ask the card for something, and those that only change it.
Queries == {"get_real_uid", "get_card_version", "get_key_setting",
            "get_key_version", "get_application_ids", "get_file_ids",
            "get_file_settings", "read_file_data"}
Updates == {"format_card", "change_key_settings", "change_key",
            "change_default_key", "select_application", "create_application",
            "delete_application", "create_standard_file", "write_file_data",
            "delete_file"}
Methods == Queries \cup Updates \cup {"authenticate"}

\* ADDITIONAL_FRAME (0xAF) is a command of the card, not a method.
Ops == Methods \cup {"additional_frame"}

\* RndA and RndB are named by the number of the call and of the challenge they
\* are drawn in; the session key is made of the two.
SessionKeys == Nat \X Nat
KeyValues == Secrets \cup SessionKeys

ASSUME ConstantsAssumption ==
  /\ Picc \in Apps
  /\ 0 \in KeyIds /\ KeyIds \subseteq 0 .. 15
  /\ Factory \in Secrets
  /\ FileModes \subseteq Modes
  /\ Calls \subseteq Methods
  /\ LongAnswers \subseteq Queries
  /\ MacsPlain \subseteq Methods
  /\ MaxCalls \in Nat /\ MaxFaults \in Nat /\ MaxChunks \in Nat

\* The type of a DESFireKey, and of its data: given to its constructor, never changed.
KeyTypes == {"2K3DES", "3K3DES", "AES"}
KeyType(key) ==
  CASE key \in AesKeys -> "AES"
    [] key \in TripleKeys \ AesKeys -> "3K3DES"
    [] OTHER -> "2K3DES"

\* A key number has a key and, in its high bits, a key type; 2K3DES sets none of them.
\* The data of change_key shows by its length whether it is in the format for the
\* session's own key (same), and of which type the new key is.
CommandRecords ==
  [op : Ops, app : Apps \cup {None}, kid : KeyIds \cup {None}, flag : KeyTypes,
   key : KeyValues \cup {None}, old : KeyValues \cup {None}, type : KeyTypes,
   same : BOOLEAN, mode : Modes, part : Nat]

\* The parameters the card cannot do without.
Commands ==
  {c \in CommandRecords :
     /\ c.op \in {"authenticate", "change_key"} => c.kid \in KeyIds
     /\ c.op = "change_key" => c.key \in KeyValues
     /\ c.op \in {"select_application", "create_application", "delete_application"}
          => c.app \in Apps}

\* What goes through the cipher of a key.
Items == ({"tx"} \X Commands) \cup ({"rx", "raw"} \X Seq(Payloads))
           \cup ({"RndA", "RndB"} \X Nat) \cup ({"RndAB"} \X SessionKeys)

Ciphers == [key : KeyValues, chain : Seq(Items), mode : Modes]
Requests == [cmd : Commands, cipher : Ciphers \cup {None}]
Responses == [status : {"ok", "more", "error"}, data : Seq(Payloads),
              cipher : Ciphers \cup {None}]
CallStates == {"sent", "next", "challenge", "proof"}

\* A method on the stack, with its key number if it has one, and one that returned.
Running == [cmd : Commands, kid : KeyIds \cup {None}, rx : Modes, at : CallStates,
            ret : Seq(Payloads), got : Seq(Payloads), key : KeyObjs \cup {None}, rndB : Nat, left : Nat]
Returned == [cmd : Commands, rx : Modes, data : Seq(Payloads), mac : BOOLEAN]

\* What the card keeps of a session and of a handshake.
Sessions == [sk : SessionKeys, kid : KeyIds]
Challenges == [kid : KeyIds, rnd : Nat]

\* None is none of the values it stands in for.
ASSUME NoneAssumption ==
  /\ None \notin Apps \cup KeyIds \cup KeyObjs \cup KeyValues
  /\ None \notin Ciphers \cup Requests \cup Responses
  /\ None \notin Running \cup Returned \cup Sessions \cup Challenges

VARIABLES
  \* the DESFire object
  is_authenticated, session_key, last_selected_application, last_auth_key_id,
  \* the DESFireKey objects
  key_bytes, iv,
  call,         \* the public method on the stack, or None
  returned,     \* what the last method returned, None while one runs or after it raised
  request,      \* the frame on its way to the card, or None
  response,     \* the frame on its way to the host, or None
  \* the card: selected application, session, IV of the session, challenge sent,
  \* last frame of a long answer, keys, number of challenges drawn
  card_app, card_auth, card_iv, card_chal, card_rest, card_keys, card_rnd,
  \* history: sessions the card established; what the card answered to the method on the
  \* stack, and in which session; a frame was lost or damaged, or a command refused, since
  \* the session began or an encrypted answer repaired it; the card changed its
  \* application and the host was not told
  established, answered, gap, doubt,
  calls, faults \* how much of the bounds is used up

hostVars == <<is_authenticated, session_key, last_selected_application, last_auth_key_id>>
keyVars  == <<key_bytes, iv>>
cardVars == <<card_app, card_auth, card_iv, card_chal, card_rest, card_keys, card_rnd>>
history  == <<established, answered, gap, doubt>>
vars == <<hostVars, keyVars, call, returned, request, response, cardVars, history,
          calls, faults>>

TypeOK ==
  /\ is_authenticated \in BOOLEAN
  /\ session_key \in KeyObjs \cup {None}
  /\ last_selected_application \in Apps \cup {None}
  /\ last_auth_key_id \in KeyIds \cup {None}
  /\ key_bytes \in [KeyObjs -> KeyValues]
  /\ iv \in [KeyObjs -> Seq(Items)]
  /\ call \in Running \cup {None}
  /\ returned \in Returned \cup {None}
  /\ request \in Requests \cup {None}
  /\ response \in Responses \cup {None}
  /\ card_app \in Apps
  /\ card_auth \in Sessions \cup {None}
  /\ card_iv \in Seq(Items)
  /\ card_chal \in Challenges \cup {None}
  /\ card_rest \in Responses \cup {None}
  /\ card_keys \in [Apps -> [KeyIds -> KeyValues]]
  /\ card_rnd \in Nat
  /\ established \subseteq Sessions
  /\ answered \in [data : Seq(Payloads), sk : SessionKeys \cup {None}]
  /\ gap \in BOOLEAN
  /\ doubt \in BOOLEAN
  /\ calls \in 0 .. MaxCalls
  /\ faults \in 0 .. MaxFaults

Init ==
  /\ is_authenticated = FALSE
  /\ session_key = None
  /\ last_selected_application = None
  /\ last_auth_key_id = None
  /\ key_bytes \in {f \in [KeyObjs -> Secrets] :
                      \A o \in KeyObjs : KeyType(f[o]) = KeyType(o)}
  /\ iv = [o \in KeyObjs |-> <<>>]
  /\ call = None
  /\ returned = None
  /\ request = None
  /\ response = None
  /\ card_app = Picc
  /\ card_auth = None
  /\ card_iv = <<>>
  /\ card_chal = None
  /\ card_rest = None
  /\ card_keys = [a \in Apps |-> [k \in KeyIds |-> Factory]]
  /\ card_rnd = 0
  /\ established = {}
  /\ answered = [data |-> <<>>, sk |-> None]
  /\ gap = FALSE
  /\ doubt = FALSE
  /\ calls = 0
  /\ faults = 0

-----------------------------------------------------------------------------
(* Sending: _command, _preprocess and the first half of _transceive        *)

\* _command: a command code and its parameters.
Command(op) ==
  [op |-> op, app |-> None, kid |-> None, flag |-> "2K3DES", key |-> None, old |-> None,
   type |-> "2K3DES", same |-> FALSE, mode |-> "PLAIN", part |-> 0]

\* The IV after the command went through the cipher of the session key.
ChainAfterTx(cmd) == Append(iv[session_key], <<"tx", cmd>>)

\* _preprocess: what is appended to the command, or what it is encrypted to.
Preprocess(cmd, tx) ==
  [cmd    |-> cmd,
   cipher |-> IF is_authenticated /\ tx # "PLAIN"
              THEN [key |-> key_bytes[session_key], chain |-> ChainAfterTx(cmd), mode |-> tx]
              ELSE None]

\* Even a PLAIN command goes through the MAC, to move the IV on.
IvAfterPreprocess(cmd) ==
  IF is_authenticated THEN [iv EXCEPT ![session_key] = ChainAfterTx(cmd)] ELSE iv

\* The guard of _transceive: no MAC and no encryption without a session.
CryptoAllowed(tx, rx) == is_authenticated \/ (tx = "PLAIN" /\ rx = "PLAIN")

Transceive(kid, cmd, tx, rx, ret, left) ==
  /\ CryptoAllowed(tx, rx)
  /\ request' = Preprocess(cmd, tx)
  /\ iv' = IvAfterPreprocess(cmd)
  /\ call' = [cmd |-> cmd, kid |-> kid, rx |-> rx, at |-> "sent", ret |-> ret,
              got |-> <<>>, key |-> None, rndB |-> 0, left |-> left]

\* The mode most methods ask the answer in.
CmacIfAuthenticated == IF is_authenticated THEN "CMAC" ELSE "PLAIN"

\* The caller calls a method of the object; at most one is running.
Invoke(method) ==
  /\ method \in Calls
  /\ call = None
  /\ calls < MaxCalls
  /\ calls' = calls + 1
  /\ returned' = None
  /\ answered' = [data |-> <<>>, sk |-> None]
  /\ UNCHANGED <<key_bytes, response, cardVars, established, gap, doubt, faults>>

\* A method called for key number kid, which need not be the one in its command.
PerformFor(kid, cmd, tx, rx) ==
  /\ Invoke(cmd.op)
  /\ Transceive(kid, cmd, tx, rx, <<>>, 0)
  /\ UNCHANGED hostVars

Perform(cmd, tx, rx) == PerformFor(cmd.kid, cmd, tx, rx)

-----------------------------------------------------------------------------
(* The public methods                                                      *)

\* A DESFireKey is constructed.  The object that is the session key lives on in
\* the DESFire object and is not replaced.
NewKey(o, secret) ==
  /\ call = None
  /\ o # session_key
  /\ KeyType(secret) = KeyType(o)
  /\ key_bytes' = [key_bytes EXCEPT ![o] = secret]
  /\ iv' = [iv EXCEPT ![o] = <<>>]
  /\ UNCHANGED <<hostVars, call, returned, request, response, cardVars, history,
                 calls, faults>>

\* authenticate, up to the first frame, which is sent without a session.
SendAuthenticate(kid, o) ==
  LET cmd == [Command("authenticate") EXCEPT !.kid = kid] IN
  /\ Invoke("authenticate")
  /\ request' = [cmd |-> cmd, cipher |-> None]
  /\ call' = [cmd |-> cmd, kid |-> kid, rx |-> "PLAIN", at |-> "challenge",
              ret |-> <<>>, got |-> <<>>, key |-> o, rndB |-> 0, left |-> 0]
  /\ UNCHANGED <<iv, session_key, last_selected_application, last_auth_key_id>>

\* Seeded bug: the old session is believed in until the new one replaces it.
AuthenticateWithinSession(kid, o) == SendAuthenticate(kid, o) /\ UNCHANGED is_authenticated

Authenticate(kid, o) == SendAuthenticate(kid, o) /\ is_authenticated' = FALSE

GetRealUid == is_authenticated /\ Perform(Command("get_real_uid"), "PLAIN", "ENCRYPTED")

GetCardVersion == Perform(Command("get_card_version"), "PLAIN", CmacIfAuthenticated)

FormatCard == is_authenticated /\ Perform(Command("format_card"), "PLAIN", "PLAIN")

GetKeySetting == Perform(Command("get_key_setting"), "PLAIN", CmacIfAuthenticated)

GetKeyVersion(kid) ==
  Perform([Command("get_key_version") EXCEPT !.kid = kid], "PLAIN", CmacIfAuthenticated)

ChangeKeySettings ==
  is_authenticated /\ Perform(Command("change_key_settings"), "ENCRYPTED", "CMAC")

\* The application the host takes for the selected one.
HostApp == IF last_selected_application = None THEN Picc ELSE last_selected_application

\* The number of the key on the wire.  At the card level its high bits name a type:
\* that of the new key, whose number is then replaced by 0, or else of the current one.
KeyNumber(kid, current, new) ==
  CASE HostApp # Picc -> [kid |-> kid, flag |-> "2K3DES"]
    [] HostApp = Picc /\ KeyType(new) # "2K3DES" -> [kid |-> 0, flag |-> KeyType(new)]
    [] HostApp = Picc /\ KeyType(new) = "2K3DES" -> [kid |-> kid, flag |-> KeyType(current)]

\* Seeded bugs: the master key is taken for the session's key; the number on the wire
\* is compared.
IsMasterKey(kid, number) == kid = 0
IsSameNumber(kid, number) == number = last_auth_key_id

\* change_key tells from its own record whether it changes the session's key.
IsSameKey(kid, number) == kid = last_auth_key_id

ChangeKey(kid, current, new) ==
  LET number == KeyNumber(kid, current, new)
      same == IsSameKey(kid, number.kid)
      cmd == [Command("change_key") EXCEPT
                !.kid = number.kid, !.flag = number.flag, !.same = same,
                !.key = key_bytes[new], !.type = KeyType(new),
                !.old = IF same THEN None ELSE key_bytes[current]]
  IN /\ is_authenticated
     /\ PerformFor(kid, cmd, "ENCRYPTED", IF same THEN "PLAIN" ELSE "CMAC")

ChangeDefaultKey(new) ==
  /\ is_authenticated
  /\ Perform([Command("change_default_key") EXCEPT !.key = key_bytes[new]],
             "ENCRYPTED", "CMAC")

GetApplicationIds == Perform(Command("get_application_ids"), "PLAIN", CmacIfAuthenticated)

SelectApplication(app) ==
  Perform([Command("select_application") EXCEPT !.app = app], "PLAIN", "PLAIN")

CreateApplication(app) ==
  /\ is_authenticated
  /\ Perform([Command("create_application") EXCEPT !.app = app], "PLAIN", "CMAC")

DeleteApplication(app) ==
  /\ is_authenticated
  /\ Perform([Command("delete_application") EXCEPT !.app = app], "PLAIN", "CMAC")

AppSelected == last_selected_application # None

GetFileIds == AppSelected /\ Perform(Command("get_file_ids"), "PLAIN", CmacIfAuthenticated)

GetFileSettings ==
  AppSelected /\ Perform(Command("get_file_settings"), "PLAIN", CmacIfAuthenticated)

\* One READ_DATA per chunk of 48 bytes; the first is sent here.
ReadChunk(mode, part) == [Command("read_file_data") EXCEPT !.mode = mode, !.part = part]

ReadFileData(mode, chunks) ==
  /\ AppSelected
  /\ Invoke("read_file_data")
  /\ Transceive(None, ReadChunk(mode, 0), "PLAIN", mode, <<>>, chunks - 1)
  /\ UNCHANGED hostVars

CreateStandardFile ==
  AppSelected /\ Perform(Command("create_standard_file"), "PLAIN", CmacIfAuthenticated)

WriteFileData(mode) ==
  /\ AppSelected
  /\ Perform([Command("write_file_data") EXCEPT !.mode = mode], mode, CmacIfAuthenticated)

DeleteFile == AppSelected /\ Perform(Command("delete_file"), CmacIfAuthenticated, "PLAIN")
-----------------------------------------------------------------------------
(* Receiving: _communicate, _postprocess and what the methods do last      *)

\* A method raises: whatever it had not assigned yet stays as it is.
Raise == call' = None /\ UNCHANGED hostVars

Consume == response # None /\ response' = None

ReceivedError ==
  /\ Consume
  /\ response.status = "error"
  /\ UNCHANGED <<hostVars, keyVars, returned, cardVars, history, calls, faults>>

\* Seeded bug: a proof that ended in an error is sent again.
RetryProof ==
  /\ ReceivedError
  /\ IF call.at = "proof"
     THEN /\ request' = [cmd |-> Command("additional_frame"),
                         cipher |-> [key |-> key_bytes[call.key],
                                     chain |-> Append(iv[call.key], <<"RndAB", <<calls, call.rndB>>>>),
                                     mode |-> "ENCRYPTED"]]
          /\ UNCHANGED call
     ELSE UNCHANGED request /\ call' = None

\* Any status but 0x00 and 0xAF becomes a DESFireCommunicationError.  The session
\* the object believes in is not given up.
ReceiveError == ReceivedError /\ call' = None /\ UNCHANGED request

\* 0xAF: ask for the next frame, with a bare command that _preprocess never sees.
ReceiveMore ==
  /\ Consume
  /\ call.at = "sent"
  /\ response.status = "more"
  /\ call' = [call EXCEPT !.got = @ \o response.data]
  /\ request' = [cmd |-> Command("additional_frame"), cipher |-> None]
  /\ UNCHANGED <<hostVars, keyVars, returned, cardVars, history, calls, faults>>

\* Seeded bug: the frames before the last are dropped.
LastFrame == response.data

\* The answer as _communicate returns it, and the chain it must end.
Received == call.got \o response.data
ChainAfterRx == Append(iv[session_key], <<"rx", Received>>)

\* Seeded bugs: the MAC is not compared; it is compared without regard to the IV.
AlwaysAuthentic == TRUE
RightKeyIsAuthentic ==
  response.cipher # None /\ response.cipher.key = key_bytes[session_key]

\* What _postprocess computes itself and compares with the MAC, or needs to
\* recover the CRC from the ciphertext.
Authentic ==
  response.cipher =
    [key |-> key_bytes[session_key], chain |-> ChainAfterRx, mode |-> call.rx]

\* Seeded bugs: a MAC leaves the IV alone; the IV follows an encrypted answer only once
\* its CRC is right.
IvKeptByMac ==
  IF call.rx = "ENCRYPTED" /\ response.cipher # None
  THEN [iv EXCEPT ![session_key] = response.cipher.chain] ELSE iv
IvAfterCrcCheck ==
  IF call.rx # "PLAIN" /\ Authentic
  THEN [iv EXCEPT ![session_key] = response.cipher.chain] ELSE iv

\* The IV after _postprocess, which moves it before it looks at MAC or CRC.  An
\* encrypted answer leaves its last block as IV, whatever it decrypts to.
IvAfterPostprocess ==
  CASE call.rx = "PLAIN" -> iv
    [] call.rx = "CMAC" -> [iv EXCEPT ![session_key] = ChainAfterRx]
    [] call.rx = "ENCRYPTED" ->
         [iv EXCEPT ![session_key] =
            IF response.cipher = None THEN <<<<"raw", Received>>>> ELSE response.cipher.chain]

\* What a card in a session answers without a MAC.
PlainOnCard(cmd) ==
  /\ cmd.op \in {"format_card", "delete_file", "read_file_data"} \ MacsPlain
  /\ cmd.op = "read_file_data" => cmd.mode = "PLAIN"

\* The mode a card in a session answers in.
AnswerMode(cmd) ==
  CASE cmd.op = "get_real_uid" -> "ENCRYPTED"
    [] cmd.op = "read_file_data" /\ cmd.mode # "PLAIN" -> cmd.mode
    [] PlainOnCard(cmd) -> "PLAIN"
    [] OTHER -> "CMAC"

\* An encrypted answer repairs the session, whatever happened before, if it comes with
\* its ciphertext; one under a MAC does harm if it is not what the card answered, one that
\* is taken PLAIN if the card made a MAC for it.
GapAfterPostprocess ==
  CASE call.rx = "PLAIN" -> gap \/ (is_authenticated /\ AnswerMode(call.cmd) # "PLAIN")
    [] call.rx = "CMAC" -> gap \/ call.ret \o Received # answered.data
    [] call.rx = "ENCRYPTED" -> response.cipher = None

Postprocess ==
  /\ Consume
  /\ call.at = "sent"
  /\ response.status = "ok"
  /\ iv' = IvAfterPostprocess
  /\ UNCHANGED <<key_bytes, request, cardVars, established, answered, calls, faults>>

\* A MAC that differs raises, and so does a CRC.  A CRC may be refused although it is
\* right: the zero bytes stripped from the end may be its own.
RefuseAnswer ==
  /\ Postprocess
  /\ call.rx # "PLAIN"
  /\ ~Authentic \/ call.rx = "ENCRYPTED"
  /\ Raise
  /\ gap' = GapAfterPostprocess
  /\ UNCHANGED <<returned, doubt>>

AcceptAnswer == Postprocess /\ (call.rx # "PLAIN" => Authentic)

\* Seeded bugs: select_application keeps what it knew; change_key of the session's
\* own key drops the session key only.
ForgetSelected(cmd) ==
  IF cmd.op = "select_application"
  THEN is_authenticated' = FALSE /\ UNCHANGED <<session_key, last_selected_application,
                                                last_auth_key_id>>
  ELSE UNCHANGED hostVars
ForgetInvalidate(cmd) ==
  IF cmd.op = "change_key" /\ cmd.same
  THEN session_key' = None /\ UNCHANGED <<is_authenticated, last_selected_application,
                                          last_auth_key_id>>
  ELSE UNCHANGED hostVars

\* select_application and change_key of the session's own key end the session.
HostAfterReturn(cmd) ==
  CASE cmd.op = "select_application" ->
         /\ is_authenticated' = FALSE
         /\ last_auth_key_id' = None
         /\ last_selected_application' = cmd.app
         /\ UNCHANGED session_key
    [] cmd.op = "change_key" /\ cmd.same ->
         /\ is_authenticated' = FALSE
         /\ session_key' = None
         /\ UNCHANGED <<last_selected_application, last_auth_key_id>>
    [] OTHER -> UNCHANGED hostVars

\* Seeded bugs: the loop goes round once too often; it keeps the last chunk only.
OneMoreChunk == call.left >= 0
LastChunk == Received

\* Whether bytes are left to read, and what has been read so far.
MoreChunks == call.left > 0
ReadSoFar == call.ret \o Received

Return ==
  /\ AcceptAnswer
  /\ ~MoreChunks
  /\ returned' = [cmd |-> call.cmd, rx |-> call.rx, data |-> ReadSoFar,
                  mac |-> (call.rx = "PLAIN" /\ response.cipher # None)]
  /\ call' = None
  /\ HostAfterReturn(call.cmd)
  /\ gap' = GapAfterPostprocess
  /\ doubt' = (doubt /\ call.cmd.op # "select_application")

\* The loop of read_file_data goes round once more.
ReturnChunk ==
  /\ AcceptAnswer
  /\ MoreChunks
  /\ call' = [call EXCEPT !.at = "next", !.ret = ReadSoFar]
  /\ gap' = GapAfterPostprocess
  /\ UNCHANGED <<hostVars, returned, doubt>>

NextChunk ==
  /\ call # None
  /\ call.at = "next"
  /\ Transceive(None, ReadChunk(call.cmd.mode, call.cmd.part + 1), "PLAIN", call.rx,
                call.ret, call.left - 1)
  /\ UNCHANGED <<hostVars, key_bytes, returned, response, cardVars, history,
                 calls, faults>>

-----------------------------------------------------------------------------
(* Receiving: the two answers of the handshake in authenticate             *)

Last(seq) == seq[Len(seq)]

\* Seeded bug: cipher_init leaves the IV alone.
IvKeptByCipherInit(o) == iv[o]

\* cipher_init clears the IV the object was left with by what it did before.
IvAfterCipherInit(o) == <<>>

\* RndB as the key decrypts it; 0, the RndB of no challenge, if it comes out wrong.
DecryptedRndB(o) ==
  IF /\ response.cipher.key = key_bytes[o]
     /\ response.cipher.chain = Append(IvAfterCipherInit(o), Last(response.cipher.chain))
  THEN Last(response.cipher.chain)[2]
  ELSE 0

\* RndA is drawn here and named by the number of the call.
ReceiveChallenge ==
  /\ Consume
  /\ call.at = "challenge"
  /\ response.status = "more"
  /\ LET o == call.key
         rndB == DecryptedRndB(o)
         sent == Append(response.cipher.chain, <<"RndAB", <<calls, rndB>>>>)
     IN /\ iv' = [iv EXCEPT ![o] = response.cipher.chain]
        /\ request' = [cmd |-> Command("additional_frame"),
                       cipher |-> [key |-> key_bytes[o], chain |-> sent, mode |-> "ENCRYPTED"]]
        /\ call' = [call EXCEPT !.at = "proof", !.rndB = rndB]
  /\ UNCHANGED <<hostVars, key_bytes, returned, cardVars, history, calls, faults>>

\* The length of RndB tells that the card expects a key of another type.
RefuseChallenge ==
  /\ Consume
  /\ call.at = "challenge"
  /\ response.status = "more"
  /\ response.cipher.key # key_bytes[call.key]
  /\ Raise
  /\ UNCHANGED <<keyVars, returned, request, cardVars, history, calls, faults>>

\* The chain that the proof ended; the card's RndA, which must be the one that was
\* sent, continues it.
ChainOfProof(o) == Append(iv[o], <<"RndAB", <<calls, call.rndB>>>>)
ChainAfterProof(o) == Append(ChainOfProof(o), <<"RndA", calls>>)

ProofMatches ==
  response.cipher =
    [key |-> key_bytes[call.key], chain |-> ChainAfterProof(call.key), mode |-> "ENCRYPTED"]

\* "Authentication FAILED!": the card may be in a session, the object is not.
RefuseProof ==
  /\ Consume
  /\ call.at = "proof"
  /\ response.status = "ok"
  /\ ~ProofMatches
  /\ Raise
  /\ iv' = [iv EXCEPT ![call.key] = ChainOfProof(call.key)]
  /\ UNCHANGED <<key_bytes, returned, request, cardVars, history, calls, faults>>

\* The object that was given as key becomes the session key.
ReceiveProof ==
  /\ Consume
  /\ call.at = "proof"
  /\ response.status = "ok"
  /\ ProofMatches
  /\ is_authenticated' = TRUE
  /\ last_auth_key_id' = call.cmd.kid
  /\ session_key' = call.key
  /\ key_bytes' = [key_bytes EXCEPT ![call.key] = <<calls, call.rndB>>]
  /\ iv' = [iv EXCEPT ![call.key] = <<>>]
  /\ returned' = [cmd |-> call.cmd, rx |-> "PLAIN", data |-> <<>>, mac |-> FALSE]
  /\ call' = None
  /\ gap' = FALSE
  /\ UNCHANGED <<last_selected_application, request, cardVars, established,
                 answered, doubt, calls, faults>>

\* Device.transceive fails, or returns nothing and the empty list has no status.
NoAnswer ==
  /\ call # None
  /\ call.at # "next"
  /\ request = None
  /\ response = None
  /\ Raise
  /\ doubt' = (doubt \/ call.cmd.op = "select_application")
  /\ UNCHANGED <<keyVars, returned, request, response, cardVars, established, answered,
                 gap, calls, faults>>

-----------------------------------------------------------------------------
(* The card and the link: external                                         *)

Take == request # None /\ request' = None

Fault == faults < MaxFaults /\ faults' = faults + 1

CardKey == card_keys[card_app][card_chal.kid]

\* At the card level there is one key only, the master key.
KeyOnCard(kid) == card_app = Picc => kid = 0

\* First frame of the handshake: the session ends, a challenge is drawn.
CardChallenge ==
  /\ Take
  /\ request.cmd.op = "authenticate"
  /\ KeyOnCard(request.cmd.kid)
  /\ card_auth' = None
  /\ card_rest' = None
  /\ card_rnd' = card_rnd + 1
  /\ card_chal' = [kid |-> request.cmd.kid, rnd |-> card_rnd + 1]
  /\ response' = [status |-> "more", data |-> <<>>,
                  cipher |-> [key |-> card_keys[card_app][request.cmd.kid],
                              chain |-> <<<<"RndB", card_rnd + 1>>>>, mode |-> "ENCRYPTED"]]
  /\ UNCHANGED <<hostVars, keyVars, call, returned, card_app, card_iv, card_keys, history,
                 calls, faults>>

\* The chain of a proof that was made with RndA for the challenge sent.
ProofChain(rndA) ==
  <<<<"RndB", card_chal.rnd>>, <<"RndAB", <<rndA, card_chal.rnd>>>>>>

ProofFor(rndA) ==
  /\ card_chal # None
  /\ request.cipher.key = CardKey
  /\ request.cipher.chain = ProofChain(rndA)

IsProof(req) == req.cmd.op = "additional_frame" /\ req.cipher # None

\* Second frame: the session begins, with a session key made of both numbers.
CardProve(rndA) ==
  /\ Take
  /\ IsProof(request)
  /\ ProofFor(rndA)
  /\ card_auth' = [sk |-> <<rndA, card_chal.rnd>>, kid |-> card_chal.kid]
  /\ established' = established \cup {card_auth'}
  /\ card_iv' = <<>>
  /\ card_chal' = None
  /\ response' = [status |-> "ok", data |-> <<>>,
                  cipher |-> [key |-> CardKey, chain |-> Append(ProofChain(rndA), <<"RndA", rndA>>),
                              mode |-> "ENCRYPTED"]]
  /\ UNCHANGED <<hostVars, keyVars, call, returned, card_app, card_rest, card_keys, card_rnd,
                 answered, gap, doubt, calls, faults>>

\* A MAC or a ciphertext must continue the card's own chain.
Verifies(req) ==
  req.cipher # None =>
    /\ card_auth # None
    /\ req.cipher.key = card_auth.sk
    /\ req.cipher.chain = Append(card_iv, <<"tx", req.cmd>>)

\* The CRCs in change_key tell the card whether it reads the data as it is meant: a key
\* type goes with a key number at the card level only.
ChangeKeyDecodes(cmd) ==
  /\ card_auth # None
  /\ KeyOnCard(cmd.kid)
  /\ cmd.same = (cmd.kid = card_auth.kid)
  /\ cmd.flag = IF card_app = Picc THEN cmd.type ELSE "2K3DES"
  /\ ~cmd.same => cmd.old = card_keys[card_app][cmd.kid]

CanExecute(req) ==
  /\ req.cmd.op \in Methods \ {"authenticate"}
  /\ Verifies(req)
  /\ req.cmd.op = "change_key" => ChangeKeyDecodes(req.cmd)
  /\ req.cmd.op = "format_card" => card_app = Picc
  /\ req.cmd.op \in {"create_application", "delete_application"} => req.cmd.app # Picc

Factories == [k \in KeyIds |-> Factory]

KeysAfter(cmd) ==
  CASE cmd.op = "change_key" -> [card_keys EXCEPT ![card_app][cmd.kid] = cmd.key]
    [] cmd.op \in {"create_application", "delete_application"} ->
         [card_keys EXCEPT ![cmd.app] = Factories]
    [] cmd.op = "format_card" ->
         [a \in Apps |-> IF a = Picc THEN card_keys[a] ELSE Factories]
    [] OTHER -> card_keys

DeletesSelected(cmd) == cmd.op = "delete_application" /\ cmd.app = card_app

AppAfter(cmd) ==
  IF cmd.op = "select_application" THEN cmd.app
  ELSE IF DeletesSelected(cmd) THEN Picc ELSE card_app

AuthAfter(cmd) ==
  IF \/ cmd.op = "select_application"
     \/ cmd.op = "change_key" /\ cmd.same
     \/ DeletesSelected(cmd)
  THEN None ELSE card_auth

\* The card's chain after the command, and after its answer.
CardChainAfterTx(cmd) == Append(card_iv, <<"tx", cmd>>)
CardChainAfterRx(cmd, data) ==
  IF AnswerMode(cmd) = "PLAIN" THEN CardChainAfterTx(cmd)
  ELSE Append(CardChainAfterTx(cmd), <<"rx", data>>)

\* The last frame of the answer; a card without session sends it bare.
Answer(cmd, data, last) ==
  [status |-> "ok", data |-> last,
   cipher |-> IF AuthAfter(cmd) = None \/ AnswerMode(cmd) = "PLAIN" THEN None
              ELSE [key |-> card_auth.sk, chain |-> CardChainAfterRx(cmd, data),
                    mode |-> AnswerMode(cmd)]]

\* Any ordinary command, answered in one frame or, if it is long, in two.
CardExecute(cmd, data) ==
  /\ Take
  /\ request.cmd = cmd
  /\ CanExecute(request)
  /\ card_app' = AppAfter(cmd)
  /\ card_auth' = AuthAfter(cmd)
  /\ card_keys' = KeysAfter(cmd)
  /\ card_iv' = IF card_auth = None THEN card_iv ELSE CardChainAfterRx(cmd, data)
  /\ card_chal' = None
  /\ answered' = [data |-> answered.data \o data,
                  sk |-> IF card_auth = None THEN None ELSE card_auth.sk]
  /\ gap' = (gap \/ DeletesSelected(cmd))
  /\ doubt' = (doubt \/ DeletesSelected(cmd))
  /\ IF Len(data) = 2
     THEN /\ response' = [status |-> "more", data |-> <<data[1]>>, cipher |-> None]
          /\ card_rest' = Answer(cmd, data, <<data[2]>>)
     ELSE /\ response' = Answer(cmd, data, data)
          /\ card_rest' = None
  /\ UNCHANGED <<hostVars, keyVars, call, returned, card_rnd, established, calls, faults>>

\* The second frame of a long answer.
CardContinue ==
  /\ Take
  /\ request.cmd.op = "additional_frame"
  /\ request.cipher = None
  /\ card_rest # None
  /\ response' = card_rest
  /\ card_rest' = None
  /\ UNCHANGED <<hostVars, keyVars, call, returned, card_app, card_auth, card_iv, card_chal,
                 card_keys, card_rnd, history, calls, faults>>

\* A proof for no challenge, or made with the wrong key, is refused ...
CardRejectProof ==
  /\ IsProof(request)
  /\ \A rndA \in 1 .. calls : ~ProofFor(rndA)
  /\ UNCHANGED faults

\* ... and so is a command the card cannot make sense of ...
CardRejectCommand ==
  /\ ~IsProof(request)
  /\ request.cmd.op = "authenticate" => ~KeyOnCard(request.cmd.kid)
  /\ ~CanExecute(request)
  /\ request.cmd.op = "additional_frame" => card_rest = None
  /\ UNCHANGED faults

\* ... or does not permit, or cannot carry out.
CardDecline == ~IsProof(request) /\ Fault

\* An error ends the session, or leaves it with the chain as it was.  That counts as
\* something going wrong unless the MAC was: the host has no excuse for a wrong one.
CardRefuse ==
  /\ Take
  /\ CardRejectProof \/ CardRejectCommand \/ CardDecline
  /\ card_auth' \in {None, card_auth}
  /\ card_chal' = None
  /\ card_rest' = None
  /\ response' = [status |-> "error", data |-> <<>>, cipher |-> None]
  /\ gap' = (gap \/ Verifies(request))
  /\ UNCHANGED <<hostVars, keyVars, call, returned, card_app, card_iv, card_keys, card_rnd,
                 established, answered, doubt, calls>>

\* A frame is lost, on the way to the card or on the way back.
Lose ==
  /\ request # None \/ response # None
  /\ Fault
  /\ request' = None
  /\ response' = None
  /\ gap' = TRUE
  /\ UNCHANGED <<hostVars, keyVars, call, returned, cardVars, established, answered, doubt,
                 calls>>

\* What a method may be answered with.
Data(op) ==
  IF op \in Queries
  THEN {<<p>> : p \in Payloads}
         \cup {<<p, q>> : p, q \in IF op \in LongAnswers THEN Payloads ELSE {}}
  ELSE {<<>>}

\* An answer, or the card's RndA, arrives damaged: its data, or the MAC, CRC or
\* ciphertext, which is then right for no key.
Spoil ==
  /\ response # None
  /\ call.at \in {"sent", "proof"}
  /\ response.status # "error"
  /\ Fault
  /\ \E data \in Data(call.cmd.op), cipher \in {response.cipher, None} :
       response' = [response EXCEPT !.data = data, !.cipher = cipher]
  /\ UNCHANGED <<hostVars, keyVars, call, returned, request, cardVars, history, calls>>

\* The card leaves the field and comes back.
CardReset ==
  /\ Fault
  /\ request' = None
  /\ response' = None
  /\ card_app' = Picc
  /\ card_auth' = None
  /\ card_iv' = <<>>
  /\ card_chal' = None
  /\ card_rest' = None
  /\ doubt' = (doubt \/ card_app # Picc)
  /\ gap' = TRUE
  /\ UNCHANGED <<hostVars, keyVars, call, returned, card_keys, card_rnd, established,
                 answered, calls>>

-----------------------------------------------------------------------------

Caller ==
  \/ \E o \in KeyObjs, s \in Secrets : NewKey(o, s)
  \/ \E k \in KeyIds, o \in KeyObjs : Authenticate(k, o)
  \/ GetRealUid
  \/ GetCardVersion
  \/ FormatCard
  \/ GetKeySetting
  \/ \E k \in KeyIds : GetKeyVersion(k)
  \/ ChangeKeySettings
  \/ \E k \in KeyIds, current, new \in KeyObjs : ChangeKey(k, current, new)
  \/ \E new \in KeyObjs : ChangeDefaultKey(new)
  \/ GetApplicationIds
  \/ \E a \in Apps : SelectApplication(a)
  \/ \E a \in Apps : CreateApplication(a)
  \/ \E a \in Apps : DeleteApplication(a)
  \/ GetFileIds
  \/ GetFileSettings
  \/ \E m \in FileModes, chunks \in 1 .. MaxChunks : ReadFileData(m, chunks)
  \/ CreateStandardFile
  \/ \E m \in FileModes : WriteFileData(m)
  \/ DeleteFile

Host ==
  \/ ReceiveError
  \/ ReceiveMore
  \/ RefuseAnswer
  \/ Return
  \/ ReturnChunk
  \/ NextChunk
  \/ ReceiveChallenge
  \/ RefuseChallenge
  \/ RefuseProof
  \/ ReceiveProof
  \/ NoAnswer

CardExecuteAny ==
  /\ request # None
  /\ \E data \in Data(request.cmd.op) : CardExecute(request.cmd, data)

Card ==
  \/ CardChallenge
  \/ \E rndA \in 1 .. calls : CardProve(rndA)
  \/ CardExecuteAny
  \/ CardContinue
  \/ CardRefuse

Link == Lose \/ Spoil \/ CardReset

\* The caller has used up the bound.
Rest == calls = MaxCalls /\ call = None /\ UNCHANGED vars

Next == Caller \/ Host \/ Card \/ Link \/ Rest

\* Python runs a method to its end, and a device answers or gives up.  Nothing
\* makes the caller call.
Fairness == WF_vars(Host) /\ WF_vars(Card)

Spec == Init /\ [][Next]_vars
FairSpec == Spec /\ Fairness

-----------------------------------------------------------------------------
(* Properties                                                              *)

\* The object believes in a session only if the card established it, with this
\* session key and for the key number change_key compares with.
AuthAgreement ==
  is_authenticated =>
    /\ session_key # None
    /\ [sk |-> key_bytes[session_key], kid |-> last_auth_key_id] \in established

\* The session the handshake on the stack is about to begin.
NewSession == [sk |-> <<calls, call.rndB>>, kid |-> call.cmd.kid]

\* One frame is under way at a time, and only for a method on the stack.
OneFrame ==
  /\ request # None => call # None /\ response = None
  /\ response # None => call # None

\* An ordinary method sends no frame of a handshake, and asks for a protected answer
\* in a session only; between two chunks there is one left to ask for.
InCommand ==
  call # None /\ call.at \in {"sent", "next"} =>
    /\ call.rx # "PLAIN" => is_authenticated
    /\ request # None => request.cmd.op # "authenticate" /\ ~IsProof(request)
    /\ call.at = "next" => call.left > 0 /\ request = None /\ response = None

\* A handshake runs without a session, and the card answers it with its challenge.
InHandshake ==
  call # None /\ call.at \in {"challenge", "proof"} =>
    /\ ~is_authenticated
    /\ call.key # None
    /\ call.cmd.op = "authenticate"
    /\ call.at = "challenge" =>
         /\ request # None => request = [cmd |-> call.cmd, cipher |-> None]
         /\ response # None /\ response.status # "error" =>
              /\ response.cipher # None
              /\ response.cipher.chain = <<<<"RndB", card_rnd>>>>
              /\ card_chal # None => card_chal.kid = call.cmd.kid

\* The proof is for this call and the challenge it answers, and the card answers it
\* only after it began the session.
InProof ==
  call # None /\ call.at = "proof" =>
    /\ card_chal # None => card_chal.kid = call.cmd.kid
    /\ request # None =>
         /\ IsProof(request)
         /\ Len(request.cipher.chain) = 2
         /\ request.cipher.chain[2] = <<"RndAB", <<calls, call.rndB>>>>
    /\ response # None /\ response.status # "error" =>
         /\ NewSession \in established
         /\ card_auth \in {NewSession, None}

\* The invariant behind AuthAgreement and SessionAgreement.
Protocol == OneFrame /\ InCommand /\ InHandshake /\ InProof

\* While both sides are in a session it is the same one, whatever got lost.
SessionAgreement ==
  is_authenticated /\ card_auth # None =>
    card_auth = [sk |-> key_bytes[session_key], kid |-> last_auth_key_id]

\* Between two calls, if no frame was lost or damaged, no command refused, and no MAC put
\* on an answer that a method takes PLAIN (delete_file, format_card, read_file_data): the
\* card is in the session too, and the two IVs are the same, whatever the methods were.
InStep ==
  is_authenticated /\ call = None /\ ~gap =>
    /\ card_auth # None
    /\ iv[session_key] = card_iv

\* And only what the model calls going wrong is excused: without a loss or a damage nothing
\* parts the two sides but a refusal, the deletion of the selected application and a MAC on
\* an answer that is taken PLAIN.
GapHasCause ==
  [][ gap' /\ ~gap /\ faults' = 0 =>
        \/ response' # None /\ response'.status = "error"
        \/ card_app' # card_app
        \/ response # None /\ call.rx = "PLAIN" /\ AnswerMode(call.cmd) # "PLAIN" ]_vars

\* A method that returns what a MAC or a CRC protects returns what the card
\* answered to this method, all of it, in order, and in this session.
AnswerAuthentic ==
  returned # None /\ returned.rx # "PLAIN" =>
    /\ returned.data = answered.data
    /\ answered.sk = key_bytes[session_key]

\* After a loss no protected answer is returned until the IVs are together again: the
\* caller cannot take a later answer for complete success (_postprocess).  This is so
\* where every answer in a session has a MAC or a CRC; one that has neither can be lost
\* without the IVs parting.
NothingMissed ==
  [][returned' # None /\ returned' # returned /\ returned'.rx # "PLAIN" => ~gap]_vars

\* An encrypted answer repairs the session, even if _postprocess refuses it.
EncryptedResyncs ==
  [][ /\ response # None /\ response' = None /\ faults' = faults
      /\ response.status = "ok" /\ response.cipher # None
      /\ call.at = "sent" /\ call.rx = "ENCRYPTED" /\ card_auth # None
      => iv'[session_key] = card_iv ]_vars

\* Between two calls the object knows which application is selected, unless the
\* card changed it without the object being told.
BelievedApp == call = None /\ ~doubt => HostApp = card_app

\* change_key builds the message from last_auth_key_id and last_selected_application; the
\* card reads it by its own session and application.  It takes the data for the key the
\* caller named, in the format for that key; where the two know the same application it
\* finds the number it expects, with the type of the new key at the card level.  Only the
\* change of the master key back to 2K3DES comes with the type of the current key.
ChangeKeyAgrees ==
  request # None /\ request.cmd.op = "change_key" /\ card_auth # None =>
    LET cmd == request.cmd IN
    /\ cmd.same = (call.kid = card_auth.kid)
    /\ HostApp = card_app /\ card_app # Picc => cmd.kid = call.kid /\ cmd.flag = "2K3DES"
    /\ HostApp = card_app /\ card_app = Picc /\ cmd.same =>
         cmd.kid = call.kid /\ (cmd.type # "2K3DES" => cmd.flag = cmd.type)

\* Whichever application each side takes for the selected one, the card never changes
\* another key than the one the caller named.
RightKeyChanged ==
  [][ request # None /\ request.cmd.op = "change_key" =>
        \A a \in Apps, k \in KeyIds :
          card_keys'[a][k] # card_keys[a][k] => a = card_app /\ k = call.kid ]_vars

\* The right key is never refused, whatever its object was used for before.
RightKeyProves ==
  request # None /\ IsProof(request) /\ card_chal # None =>
    (key_bytes[call.key] = CardKey => ProofFor(calls))

\* What a method returns without a check is data, and no MAC is left at the end of it.
PlainAnswerIsData == returned # None /\ returned.rx = "PLAIN" => ~returned.mac

\* Every method returns or raises.
EveryCallReturns == call # None ~> call = None

====
