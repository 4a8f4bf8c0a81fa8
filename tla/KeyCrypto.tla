----------------------------- MODULE KeyCrypto -----------------------------
(***************************************************************************)
(* The DESFireKey objects (src/src/desfire/key.py) by their sizes: how     *)
(* long key, IV and subkeys are, and whether a cipher takes them, from     *)
(* construction through the handshake (DESFire.authenticate) to the        *)
(* commands and answers of a session.  A byte list is its length; what the *)
(* bytes are is the subject of Desfire.                                    *)
(*                                                                         *)
(* The ciphers are those of pycryptodome and external: they refuse a key   *)
(* or an IV of another length, and data that is not whole blocks.          *)
(***************************************************************************)
EXTENDS Naturals

CONSTANTS
  KeyObjs,     \* DESFireKey objects
  Kinds,       \* key types and bytes of key data the caller constructs them with
  CardKinds,   \* the same of the keys on the card
  Challenges,  \* lengths of RndA the caller chooses itself
  Data,        \* lengths of data in an answer
  Stray,       \* lengths of unencrypted answers where an encrypted one is expected
  Writes,      \* lengths of data written to a file
  None

KeyTypes == {"2K3DES", "3K3DES", "AES"}
KeyKinds == [type : KeyTypes, bytes : Nat]

ASSUME SizesAssumption ==
  /\ Kinds \subseteq KeyKinds
  /\ CardKinds \subseteq KeyKinds
  /\ Challenges \subseteq Nat /\ Data \subseteq Nat
  /\ Stray \subseteq Nat /\ Writes \subseteq Nat

VARIABLES
  keys,              \* the key objects; None where there is none yet
  is_authenticated,
  session_key,       \* the object that is the session key, or None
  call,              \* the method on the stack, or None
  frame,             \* the frame it sent, or None
  card,              \* kind of the key the card uses, and whether it is in a session
  raised             \* what the last method raised, None if it returned

vars == <<keys, is_authenticated, session_key, call, frame, card, raised>>

\* iv, iv0 and cmac (the subkeys) are lengths, 0 while the attribute is not set.
Keys == [type : KeyTypes, bytes : Nat, size : Nat, block : Nat, iv : Nat, iv0 : Nat,
         cmac : Nat]
Positions == 1 .. 16
Frames == [len : Nat, enc : Nat, mac : SUBSET Positions]
Modes == {"PLAIN", "CMAC", "ENCRYPTED"}
Commands == [at : {"sent"}, rx : Modes, ends : BOOLEAN, new : Nat]
Handshakes == [at : {"challenge", "proof"}, key : KeyObjs, rndA : Nat]

ASSUME NoneAssumption ==
  /\ None \notin KeyObjs \cup Keys \cup Frames \cup Commands \cup Handshakes
  /\ None \notin {"cipher", "length", "refused"}

TypeOK ==
  /\ keys \in [KeyObjs -> Keys \cup {None}]
  /\ is_authenticated \in BOOLEAN
  /\ session_key \in KeyObjs \cup {None}
  /\ call \in Commands \cup Handshakes \cup {None}
  /\ frame \in Frames \cup {None}
  /\ card \in [kind : CardKinds, session : BOOLEAN]
  /\ raised \in {None, "cipher", "length", "refused"}

Init ==
  /\ keys = [o \in KeyObjs |-> None]
  /\ is_authenticated = FALSE
  /\ session_key = None
  /\ call = None
  /\ frame = None
  /\ card \in [kind : CardKinds, session : {FALSE}]
  /\ raised = None

-----------------------------------------------------------------------------
(* The ciphers: external                                                   *)

CipherBlock(type) == IF type = "AES" THEN 16 ELSE 8

\* Key lengths of AES, and of DES and 3DES together.
KeyLengths(type) ==
  CASE type = "AES" -> {16}
    [] type = "2K3DES" -> {8, 16}
    [] type = "3K3DES" -> {16, 24}

\* get_ciphermod: a cipher is made for this key and this IV.
CipherTakes(type, bytes, iv) == bytes \in KeyLengths(type) /\ iv = CipherBlock(type)

\* encrypt and decrypt, which make a new cipher each time.
CanCrypt(key, len) ==
  CipherTakes(key.type, key.bytes, key.iv) /\ len % CipherBlock(key.type) = 0

-----------------------------------------------------------------------------
(* DESFireKey                                                              *)

Smaller(m, n) == IF m < n THEN m ELSE n

\* The next multiple of a block, and what is missing to it.
RoundUp(len, block) == ((len + block - 1) \div block) * block

SetKeySize(key, n) == [key EXCEPT !.block = n, !.size = n, !.iv0 = n]

SetKey(key, bytes) == [SetKeySize(key, bytes) EXCEPT !.bytes = bytes]

\* An object that has its type and nothing else.
Blank(type) ==
  [type |-> type, bytes |-> 0, size |-> 0, block |-> 0, iv |-> 0, iv0 |-> 0, cmac |-> 0]

\* cipher_init raises for a key its type does not have.
SizeKnown(key) == IF key.size = 0 THEN SetKeySize(key, 8) ELSE key
InitAccepts(key) ==
  CASE key.type = "AES" -> TRUE
    [] key.type = "2K3DES" -> SizeKnown(key).size \in {8, 16}
    [] key.type = "3K3DES" -> SizeKnown(key).size = 24

\* Seeded bug: the IV is not cleared.
InitWithoutIv(key) ==
  LET sized == IF key.type = "AES" THEN SetKeySize(key, 16)
               ELSE [SizeKnown(key) EXCEPT !.block = 8]
  IN [sized EXCEPT !.bytes = IF key.bytes = 0 THEN sized.size ELSE key.bytes]

\* The block of a DES key becomes 8, its IV stays as long as the key.
CipherInit(key) ==
  LET sized == IF key.type = "AES" THEN SetKeySize(key, 16)
               ELSE [SizeKnown(key) EXCEPT !.block = 8]
  IN [sized EXCEPT !.bytes = IF key.bytes = 0 THEN sized.size ELSE key.bytes,
                   !.iv = sized.iv0]

\* __init__: key data that is empty, or 0, counts as none.
New(kind) ==
  IF kind.bytes = 0 THEN Blank(kind.type) ELSE SetKey(Blank(kind.type), kind.bytes)

\* generate_cmac: the IV of CMAC.__init__ is as long as the key.
SubkeysFor(key) == CipherTakes(key.type, key.bytes, key.bytes)
GenerateCmac(key) == [key EXCEPT !.cmac = CipherBlock(key.type)]

ClearIv(key) == [key EXCEPT !.iv = key.iv0]

\* calculate_cmac: padded to whole blocks; the XOR with a subkey is as long as the
\* shorter of the two; the last block becomes the IV and is the result.
MacInput(key, len) == RoundUp(len, key.block) - key.block + Smaller(key.block, key.cmac)
CanMac(key, len) == key.cmac > 0 /\ CanCrypt(key, MacInput(key, len))
AfterMac(key, len) == [key EXCEPT !.iv = Smaller(key.block, MacInput(key, len))]

\* Seeded bug: whole blocks get one more.
PaddedOnceMore(key, msg) ==
  RoundUp(msg.len + (IF msg.crc THEN 4 ELSE 0) - msg.offset + 1, key.block)

\* encrypt_msg: the part after the offset, with CRC and padding.
Encrypted(key, msg) ==
  RoundUp(msg.len + (IF msg.crc THEN 4 ELSE 0) - msg.offset, key.block)

\* _preprocess keeps the last block of the frame as IV.
AfterEncrypt(key, msg) ==
  [key EXCEPT !.iv = Smaller(key.block, msg.offset + Encrypted(key, msg))]

\* _postprocess pads to 16 bytes whatever the cipher is ...
AddPadding(len) == RoundUp(len, 16)

\* Seeded bug: the whole answer becomes the IV.
IvIsTheAnswer(key, len) == [key EXCEPT !.iv = len]

\* Seeded bug: eight bytes, whatever the cipher is.
IvOfEight(key, len) == [key EXCEPT !.iv = Smaller(8, len)]

\* ... and keeps the last block of what was received.
AfterDecrypt(key, len) == [key EXCEPT !.iv = Smaller(key.block, len)]

-----------------------------------------------------------------------------
(* The caller and the handshake                                            *)

\* A method raises; what it did to the key object stays.
RaiseWith(kind) == call' = None /\ frame' = None /\ raised' = kind

Construct(o, kind) ==
  /\ call = None
  /\ o # session_key
  /\ IF InitAccepts(New(kind))
     THEN keys' = [keys EXCEPT ![o] = CipherInit(New(kind))] /\ raised' = None
     ELSE raised' = "refused" /\ UNCHANGED keys
  /\ UNCHANGED <<is_authenticated, session_key, call, frame, card>>

\* authenticate, up to the answer of the card; its session ends.
Authenticate(o, kind) ==
  /\ call = None
  /\ keys[o] # None
  /\ is_authenticated' = FALSE
  /\ card' = [kind |-> kind, session |-> FALSE]
  /\ call' = [at |-> "challenge", key |-> o, rndA |-> 0]
  /\ frame' = [len |-> 2, enc |-> 0, mac |-> {}]
  /\ raised' = None
  /\ UNCHANGED <<keys, session_key>>

\* The RndB of the card: 16 bytes for the two long key types.
ChallengeLength(type) == IF type = "2K3DES" THEN 8 ELSE 16

\* The card expects a key of another type.
WrongType(key, rndB) == key.type \in {"3K3DES", "AES"} /\ rndB # 16

\* Both halves of the exchange go through the cipher: RndB with a cleared IV, then
\* RndA and RndB with RndB_enc as IV.
ReceiveChallenge(rndA) ==
  LET o == call.key
      rndB == ChallengeLength(card.kind.type)
      ready == CipherInit(keys[o])
      chained == [ready EXCEPT !.iv = rndB]
  IN /\ call # None
     /\ call.at = "challenge"
     /\ rndA \in Challenges \cup {rndB}
     /\ CASE WrongType(keys[o], rndB) \/ ~InitAccepts(keys[o]) ->
               RaiseWith("refused") /\ UNCHANGED keys
          [] OTHER ->
               IF ~CanCrypt(ready, rndB)
               THEN RaiseWith("cipher") /\ keys' = [keys EXCEPT ![o] = ready]
               ELSE IF ~CanCrypt(chained, rndA + rndB)
               THEN /\ RaiseWith(IF CanCrypt(chained, 0) THEN "length" ELSE "cipher")
                    /\ keys' = [keys EXCEPT ![o] = chained]
               ELSE /\ keys' = [keys EXCEPT ![o] = chained]
                    /\ call' = [call EXCEPT !.at = "proof", !.rndA = rndA]
                    /\ frame' = [len |-> 1 + rndA + rndB, enc |-> rndA + rndB, mac |-> {}]
                    /\ UNCHANGED raised
     /\ UNCHANGED <<is_authenticated, session_key, card>>

\* The card begins a session for a key of its own kind and a whole RndA.
ProofAccepted ==
  /\ card.kind.type = keys[call.key].type
  /\ card.kind.bytes = keys[call.key].bytes
  /\ call.rndA = ChallengeLength(card.kind.type)

CardProve ==
  /\ call # None
  /\ call.at = "proof"
  /\ ~card.session
  /\ ProofAccepted
  /\ card' = [card EXCEPT !.session = TRUE]
  /\ frame' = None
  /\ UNCHANGED <<keys, is_authenticated, session_key, call, raised>>

\* The bytes from one position of a list to another, as a Python slice has them.
Slice(from, to, len) == Smaller(to, len) - Smaller(from, len)

\* Seeded bug: four bytes of each, whatever the key type.
ShortSessionKey(key, rndA, rndB) == Slice(0, 4, rndA) + Slice(0, 4, rndB)

\* RndA[a:b] and RndB[a:b] in turn, as many as the key type has.
SessionKeyBytes(key, rndA, rndB) ==
  LET both(from, to) == Slice(from, to, rndA) + Slice(from, to, rndB) IN
  IF key.size <= 8 THEN both(0, 4)
  ELSE CASE key.type = "2K3DES" -> both(0, 4) + both(4, 8)
         [] key.type = "3K3DES" -> both(0, 4) + both(6, 10) + both(12, 16)
         [] key.type = "AES" -> both(0, 4) + both(12, 16)

\* RndA comes back; the session key replaces the key data.  is_authenticated is
\* assigned before the subkeys are made.
ReceiveProof ==
  LET o == call.key
      rndB == ChallengeLength(card.kind.type)
      chained == [keys[o] EXCEPT !.iv = Smaller(keys[o].block, call.rndA + rndB)]
      session == SetKey(chained, SessionKeyBytes(keys[o], call.rndA, rndB))
  IN /\ call # None
     /\ call.at = "proof"
     /\ card.session
     /\ IF ~CanCrypt(chained, call.rndA)
        THEN /\ RaiseWith("cipher")
             /\ keys' = [keys EXCEPT ![o] = chained]
             /\ UNCHANGED <<is_authenticated, session_key>>
        ELSE /\ is_authenticated' = TRUE
             /\ IF SubkeysFor(session)
                THEN /\ keys' = [keys EXCEPT ![o] = ClearIv(GenerateCmac(session))]
                     /\ session_key' = o
                     /\ call' = None
                     /\ UNCHANGED <<frame, raised>>
                ELSE /\ RaiseWith("cipher")
                     /\ keys' = [keys EXCEPT ![o] = session]
                     /\ UNCHANGED session_key
     /\ UNCHANGED card

\* The card refuses, or the device fails.
Fail ==
  /\ call # None
  /\ RaiseWith("refused")
  /\ card' \in {card, [card EXCEPT !.session = FALSE]}
  /\ UNCHANGED <<keys, is_authenticated, session_key>>

-----------------------------------------------------------------------------
(* Commands                                                                *)

\* A command as _transceive is given it: its length, where its encrypted part begins
\* and whether a CRC is added to it, the modes of command and answer, whether it
\* ends the session, and for change_key the length of the new key and how many of
\* its bytes are in the message.
Message(len, tx, rx) ==
  [len |-> len, offset |-> 1, crc |-> TRUE, tx |-> tx, rx |-> rx, ends |-> FALSE,
   new |-> 0, carried |-> 0]

\* Most commands: a code and up to ten bytes of parameters.
Plain == {Message(len, "PLAIN", rx) : len \in 1 .. 11, rx \in Modes}
           \cup {[Message(4, "PLAIN", "PLAIN") EXCEPT !.ends = TRUE]}

DeleteFile == Message(2, "CMAC", "PLAIN")
ChangeKeySettings == Message(2, "ENCRYPTED", "CMAC")

\* The new key, zeros up to 24 bytes, and a version.
ChangeDefaultKey(new) ==
  [Message(2 + (IF new.bytes > 24 THEN new.bytes ELSE 24) + 1, "ENCRYPTED", "CMAC")
     EXCEPT !.offset = 2]

\* Seeded bug: the old key is taken once.
XorOnce(new, old) == Smaller(new, old)

\* xor_lists ends with the shorter list; a shorter old key is taken twice.
XorBytes(new, old) == Smaller(new, IF new > old THEN 2 * old ELSE old)

ChangeKey(current, new, same) ==
  LET carried == IF same THEN new.bytes ELSE XorBytes(new.bytes, current.bytes)
      version == IF new.type = "AES" THEN 1 ELSE 0
      crcs == IF same THEN 4 ELSE 8
  IN [len |-> 2 + carried + version + crcs, offset |-> 2, crc |-> FALSE,
      tx |-> "ENCRYPTED", rx |-> IF same THEN "PLAIN" ELSE "CMAC", ends |-> same,
      new |-> new.bytes, carried |-> carried]

\* The limit of write_file_data counts the command and its header only.
MaxFrame == 60
WriteFileData(n, tx) == [Message(8 + n, tx, "CMAC") EXCEPT !.offset = 8]

Messages ==
  Plain \cup {DeleteFile, ChangeKeySettings}
    \cup {ChangeDefaultKey(keys[n]) : n \in {o \in KeyObjs : keys[o] # None}}
    \cup {ChangeKey(keys[c], keys[n], same) :
            c, n \in {o \in KeyObjs : keys[o] # None}, same \in BOOLEAN}
    \cup {WriteFileData(n, tx) : n \in {w \in Writes : w <= MaxFrame - 1 - 7}, tx \in Modes}

\* Seeded bug: one byte too many.
MacSentOneMore(block) == (block - 8) .. block

\* The bytes of a MAC that are sent: the last eight.
MacSent(block) == (block - 7) .. block

\* What the frame holds, and the key after _preprocess.
FrameOf(key, msg) ==
  CASE msg.tx = "PLAIN" -> [len |-> msg.len, enc |-> 0, mac |-> {}]
    [] msg.tx = "CMAC" -> [len |-> msg.len + 8, enc |-> 0, mac |-> MacSent(key.block)]
    [] msg.tx = "ENCRYPTED" ->
         [len |-> msg.offset + Encrypted(key, msg), enc |-> Encrypted(key, msg), mac |-> {}]

CanSend(key, msg) ==
  IF msg.tx = "ENCRYPTED" THEN CanCrypt(key, Encrypted(key, msg)) ELSE CanMac(key, msg.len)

KeyAfterSend(key, msg) ==
  IF msg.tx = "ENCRYPTED" THEN AfterEncrypt(key, msg) ELSE AfterMac(key, msg.len)

\* A method within a session.  _preprocess raises if the cipher does not take key, IV
\* or data.
Send(msg) ==
  /\ call = None
  /\ is_authenticated
  /\ IF CanSend(keys[session_key], msg)
     THEN /\ keys' = [keys EXCEPT ![session_key] = KeyAfterSend(@, msg)]
          /\ call' = [at |-> "sent", rx |-> msg.rx, ends |-> msg.ends, new |-> msg.new]
          /\ frame' = FrameOf(keys[session_key], msg)
          /\ raised' = None
     ELSE RaiseWith("cipher") /\ UNCHANGED keys
  /\ UNCHANGED <<is_authenticated, session_key, card>>

-----------------------------------------------------------------------------
(* Answers                                                                 *)

\* What an encrypted answer is long: data and CRC in whole blocks, or an answer that
\* was not encrypted.
EncryptedAnswers == {RoundUp(n + 4, CipherBlock(card.kind.type)) : n \in Data} \cup Stray

Finish ==
  /\ call' = None
  /\ frame' = None
  /\ raised' = None
  /\ is_authenticated' = (is_authenticated /\ ~call.ends)
  /\ card' = [card EXCEPT !.session = @ /\ ~call.ends]
  /\ session_key' = IF call.ends /\ call.new > 0 THEN None ELSE session_key

\* An answer that does not pass its check, or that the cipher does not take.
Refuse(kind) == RaiseWith(kind) /\ UNCHANGED <<is_authenticated, session_key, card>>

ReceivePlain ==
  /\ call # None
  /\ call.at = "sent"
  /\ call.rx = "PLAIN"
  /\ Finish
  /\ UNCHANGED keys

\* The MAC is computed over the data and a status byte.
ReceiveMac(n) ==
  LET key == keys[session_key] IN
  /\ call # None
  /\ call.at = "sent"
  /\ call.rx = "CMAC"
  /\ IF CanMac(key, n + 1)
     THEN /\ keys' = [keys EXCEPT ![session_key] = AfterMac(key, n + 1)]
          /\ Finish \/ Refuse("refused")
     ELSE Refuse("cipher") /\ UNCHANGED keys

\* Padding that the card did not encrypt decrypts to noise, and the CRC is wrong.
ReceiveEncrypted(len) ==
  LET key == keys[session_key] IN
  /\ call # None
  /\ call.at = "sent"
  /\ call.rx = "ENCRYPTED"
  /\ IF CanCrypt(key, AddPadding(len))
     THEN /\ keys' = [keys EXCEPT ![session_key] = AfterDecrypt(key, len)]
          /\ \/ AddPadding(len) = len /\ Finish
             \/ Refuse("refused")
     ELSE Refuse("cipher") /\ UNCHANGED keys

-----------------------------------------------------------------------------

Caller ==
  \/ \E o \in KeyObjs, kind \in Kinds : Construct(o, kind)
  \/ \E o \in KeyObjs, kind \in CardKinds : Authenticate(o, kind)
  \/ \E msg \in Messages : Send(msg)

Host ==
  \/ \E rndA \in Challenges \cup {8, 16} : ReceiveChallenge(rndA)
  \/ ReceiveProof
  \/ ReceivePlain
  \/ \E n \in Data : ReceiveMac(n)
  \/ \E len \in EncryptedAnswers : ReceiveEncrypted(len)

Next == Caller \/ Host \/ CardProve \/ Fail

Spec == Init /\ [][Next]_vars

-----------------------------------------------------------------------------
(* Properties                                                              *)

\* The session key and its subkeys are what its cipher takes, and its IV is a block or
\* less, whatever the session has sent and received.
ShortIv == session_key # None /\ keys[session_key].iv < keys[session_key].block

Fits(key) ==
  /\ CipherTakes(key.type, key.bytes, key.iv) \/ ShortIv
  /\ key.bytes \in KeyLengths(key.type)
  /\ key.block = CipherBlock(key.type)
  /\ key.iv0 = key.block
  /\ key.cmac = key.block

SessionFits == is_authenticated => session_key # None /\ Fits(keys[session_key])

\* Nothing but an answer shorter than a block leaves less than a block as IV
\* (DESFire.py, _postprocess: "Update IV to the last block of the encrypted data").
OnlyShortAnswersShortenIv ==
  [][ ~ShortIv /\ ShortIv' =>
        \E len \in Stray : len < keys[session_key].block /\ ReceiveEncrypted(len) ]_vars

\* A key object the cipher does not take, or a challenge that is not whole blocks, is
\* found out before the card begins a session; within one the cipher only refuses an IV
\* that a short answer left.
RefusedInTime == raised \in {"cipher", "length"} => ~card.session \/ ShortIv

\* DES and AES keys pass the handshake however often their object was used before
\* (README.md: "mainly been tested using DES and AES-128 keys").
TestedKinds == {[type |-> "2K3DES", bytes |-> 8], [type |-> "AES", bytes |-> 16]}

IsKind(key, kind) == key.type = kind.type /\ key.bytes = kind.bytes

TestedKeysWork ==
  [][ /\ call # None
      /\ call.at \in {"challenge", "proof"}
      /\ card.kind \in TestedKinds
      /\ IsKind(keys[call.key], card.kind)
      => raised' # "cipher" ]_vars

\* So does every key of the card's kind (README.md: "Support for AES and ISO
\* authentication (DES, 2K3DES and 3K3DES)").
EveryKeyWorks ==
  [][ /\ call # None
      /\ call.at \in {"challenge", "proof"}
      /\ IsKind(keys[call.key], card.kind)
      => raised' # "cipher" ]_vars

\* A frame no longer than the largest the card takes (DESFire.py, write_file_data: "must
\* not exceed the maximum frame size of 60 bytes").
FrameFits == frame # None => frame.len <= MaxFrame

\* A longer one is sent by write_file_data alone, whose limit leaves no room for what
\* _preprocess adds: a MAC, or CRC and padding, behind more than 44 bytes.
OnlyWritesTooLong ==
  [][ frame' # frame /\ ~FrameFits' =>
        \E n \in Writes, tx \in {"CMAC", "ENCRYPTED"} :
          n > 44 /\ Send(WriteFileData(n, tx)) ]_vars

\* change_key sends all of the new key, whatever objects the caller passes, unless a key
\* of 24 bytes replaces one of eight (DESFire.py, change_key: "New key to set").
WholeKeySent ==
  \A c, n \in {o \in KeyObjs : keys[o] # None}, same \in BOOLEAN :
    LET sent == ChangeKey(keys[c], keys[n], same) IN
    /\ is_authenticated
    /\ keys[c].bytes \in KeyLengths(keys[c].type)
    /\ sent.carried # sent.new
    => ~same /\ keys[n].bytes = 24 /\ keys[c].bytes = 8

=============================================================================
