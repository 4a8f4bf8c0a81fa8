-------------------------- MODULE KeyCryptoProofs --------------------------
(***************************************************************************)
(* What holds of KeyCrypto for keys, challenges, answers and chunks of any *)
(* length.                                                                 *)
(***************************************************************************)
EXTENDS KeyCrypto, TLAPS

-----------------------------------------------------------------------------
(* The inductive invariant                                                 *)

\* What cipher_init leaves of a key object, and a session key it becomes: the IV is as
\* long as the key, but for AES the key data may be of any length.
KeyShape(key) ==
  /\ key.iv0 = key.size
  /\ key.type = "AES" => key.size = 16 /\ key.block = 16
  /\ key.type = "2K3DES" => key.size \in {8, 16} /\ key.bytes = key.size /\ key.block = 8
  /\ key.type = "3K3DES" => key.size = 24 /\ key.bytes = key.size /\ key.block = 8

KeysShaped == \A o \in KeyObjs : keys[o] # None => KeyShape(keys[o])

\* The keys the first half of the handshake does not refuse.
Passing(key) ==
  \/ key.type = "2K3DES" /\ key.size = 8
  \/ key.type = "AES" /\ key.bytes = 16

\* The session of the card begins after the object's ended, with a proof it accepts.
InHandshake ==
  call # None /\ call.at \in {"challenge", "proof"} =>
    /\ ~is_authenticated
    /\ keys[call.key] # None
    /\ call.at = "challenge" => ~card.session
    /\ call.at = "proof" =>
         /\ Passing(keys[call.key])
         /\ card.session => ProofAccepted

\* Fits, said of the key object alone.
Sound(key) ==
  /\ key.bytes \in KeyLengths(key.type)
  /\ key.block = CipherBlock(key.type)
  /\ key.iv0 = key.block
  /\ key.cmac = key.block
  /\ key.iv <= key.block

InCommand == call # None /\ call.at = "sent" => is_authenticated

InSession ==
  /\ session_key # None => keys[session_key] # None
  /\ is_authenticated =>
       /\ session_key # None
       /\ Sound(keys[session_key])
       /\ keys[session_key].type = card.kind.type

\* A method that is under way has raised nothing.
Quiet == call # None => raised = None

IInv ==
  /\ TypeOK
  /\ KeysShaped
  /\ InHandshake
  /\ InCommand
  /\ InSession
  /\ Quiet
  /\ RefusedInTime

-----------------------------------------------------------------------------
(* Blocks                                                                  *)

Blocks == {8, 16}

LEMMA BlockOfCipher == \A type \in KeyTypes : CipherBlock(type) \in Blocks
  BY DEF KeyTypes, CipherBlock, Blocks

\* Rounding up ends at whole blocks, less than a block further on.
LEMMA RoundUpFacts ==
  ASSUME NEW len \in Nat, NEW block \in Blocks
  PROVE  /\ RoundUp(len, block) \in Nat
         /\ RoundUp(len, block) % block = 0
         /\ RoundUp(len, block) >= len
         /\ RoundUp(len, block) < len + block
         /\ len > 0 => RoundUp(len, block) >= block
<1>1. CASE block = 8
  BY <1>1 DEF RoundUp
<1>2. CASE block = 16
  BY <1>2 DEF RoundUp
<1> QED
  BY <1>1, <1>2 DEF Blocks

\* The padding to 16 bytes is whole blocks of every cipher.
LEMMA PaddingFits ==
  ASSUME NEW len \in Nat, NEW block \in Blocks
  PROVE  AddPadding(len) \in Nat /\ AddPadding(len) % block = 0
  BY DEF AddPadding, RoundUp, Blocks

-----------------------------------------------------------------------------
(* Messages                                                                *)

MessageRecords ==
  [len : Nat, offset : Nat, crc : BOOLEAN, tx : Modes, rx : Modes, ends : BOOLEAN,
   new : Nat, carried : Nat]

\* What comes after the offset, with the CRC.
Protected(msg) == msg.len + (IF msg.crc THEN 4 ELSE 0) - msg.offset

\* No message is empty, and one that is encrypted has something to encrypt.
Sensible(msg) ==
  /\ msg \in MessageRecords
  /\ msg.len > 0 /\ msg.offset > 0
  /\ msg.tx = "ENCRYPTED" => Protected(msg) \in Nat \ {0}

LEMMA XorTyped ==
  ASSUME NEW new \in Nat, NEW old \in Nat
  PROVE  XorBytes(new, old) \in Nat /\ XorBytes(new, old) <= new
  BY DEF XorBytes, Smaller

LEMMA ChangeKeySensible ==
  ASSUME NEW current \in Keys, NEW new \in Keys, NEW same \in BOOLEAN
  PROVE  LET msg == ChangeKey(current, new, same) IN
         /\ Sensible(msg)
         /\ msg.carried <= new.bytes
         /\ Protected(msg) <= msg.carried + 9
         /\ msg.offset = 2
<1> DEFINE carried == IF same THEN new.bytes ELSE XorBytes(new.bytes, current.bytes)
           version == IF new.type = "AES" THEN 1 ELSE 0
           crcs == IF same THEN 4 ELSE 8
           msg == ChangeKey(current, new, same)
<1>1. new.bytes \in Nat /\ current.bytes \in Nat
  BY DEF Keys
<1>2. carried \in Nat /\ carried <= new.bytes
  <2>1. CASE same
    BY <1>1, <2>1
  <2>2. CASE ~same
    <3>1. carried = XorBytes(new.bytes, current.bytes)
      BY <2>2
    <3> QED
      BY <1>1, <3>1, XorTyped
  <2> QED
    BY <2>1, <2>2
<1>3. version \in 0 .. 1 /\ crcs \in {4, 8}
  OBVIOUS
<1>4. msg = [len |-> 2 + carried + version + crcs, offset |-> 2, crc |-> FALSE,
             tx |-> "ENCRYPTED", rx |-> IF same THEN "PLAIN" ELSE "CMAC", ends |-> same,
             new |-> new.bytes, carried |-> carried]
  BY DEF ChangeKey
<1> HIDE DEF carried, version, crcs, msg
<1>5. msg \in MessageRecords
  BY <1>1, <1>2, <1>3, <1>4 DEF MessageRecords, Modes
<1>6. Protected(msg) = carried + version + crcs
  BY <1>2, <1>3, <1>4 DEF Protected
<1>7. Sensible(msg)
  BY <1>2, <1>3, <1>4, <1>5, <1>6 DEF Sensible
<1>8. msg.carried <= new.bytes /\ Protected(msg) <= msg.carried + 9 /\ msg.offset = 2
  BY <1>2, <1>3, <1>4, <1>6
<1> QED
  BY <1>7, <1>8 DEF msg

LEMMA MessageSensible ==
  ASSUME NEW len \in Nat \ {0}, NEW tx \in Modes, NEW rx \in Modes
  PROVE  /\ Sensible(Message(len, tx, rx))
         /\ Sensible([Message(len, tx, rx) EXCEPT !.ends = TRUE])
         /\ \A n \in 1 .. len : Sensible([Message(len, tx, rx) EXCEPT !.offset = n])
<1> DEFINE m == Message(len, tx, rx)
<1>1. /\ m \in MessageRecords
      /\ m.len = len /\ m.offset \in 1 .. len /\ m.crc = TRUE
  BY DEF Message, MessageRecords
<1> HIDE DEF m
<1>2. ASSUME NEW msg \in MessageRecords, msg.len = len, msg.offset \in 1 .. len, msg.crc = TRUE
      PROVE  Sensible(msg)
  BY <1>2 DEF Sensible, Protected
<1>3. Sensible(m)
  BY <1>1, <1>2
<1>4. Sensible([m EXCEPT !.ends = TRUE])
  <2> DEFINE e == [m EXCEPT !.ends = TRUE]
  <2>1. e \in MessageRecords
    BY <1>1 DEF MessageRecords
  <2>2. e.len = len /\ e.offset \in 1 .. len /\ e.crc = TRUE
    BY <1>1 DEF MessageRecords
  <2> HIDE DEF e
  <2>3. Sensible(e)
    BY <1>2, <2>1, <2>2
  <2> QED
    BY <2>3 DEF e
<1>5. ASSUME NEW n \in 1 .. len
      PROVE  Sensible([m EXCEPT !.offset = n])
  <2> DEFINE e == [m EXCEPT !.offset = n]
  <2>1. e \in MessageRecords
    BY <1>1 DEF MessageRecords
  <2>2. e.len = len /\ e.offset \in 1 .. len /\ e.crc = TRUE
    BY <1>1 DEF MessageRecords
  <2> HIDE DEF e
  <2>3. Sensible(e)
    BY <1>2, <2>1, <2>2
  <2> QED
    BY <2>3 DEF e
<1> QED
  BY <1>3, <1>4, <1>5 DEF m

LEMMA MessagesSensible == TypeOK => \A msg \in Messages : Sensible(msg)
<1> SUFFICES ASSUME TypeOK, NEW msg \in Messages PROVE Sensible(msg)
  OBVIOUS
<1> USE DEF Modes
<1>1. CASE msg \in Plain
  <2>1. CASE \E len \in 1 .. 11, rx \in Modes : msg = Message(len, "PLAIN", rx)
    <3>1. PICK len \in 1 .. 11, rx \in Modes : msg = Message(len, "PLAIN", rx)
      BY <2>1
    <3>2. len \in Nat \ {0} /\ "PLAIN" \in Modes
      OBVIOUS
    <3> QED
      BY <3>1, <3>2, MessageSensible
  <2>2. CASE msg = [Message(4, "PLAIN", "PLAIN") EXCEPT !.ends = TRUE]
    <3>1. 4 \in Nat \ {0}
      OBVIOUS
    <3> QED
      BY <2>2, <3>1, MessageSensible
  <2> QED
    BY <1>1, <2>1, <2>2 DEF Plain
<1>2. CASE msg \in {DeleteFile, ChangeKeySettings}
  <2>1. 2 \in Nat \ {0}
    OBVIOUS
  <2>2. Sensible(DeleteFile)
    BY <2>1, MessageSensible DEF DeleteFile
  <2>3. Sensible(ChangeKeySettings)
    BY <2>1, MessageSensible DEF ChangeKeySettings
  <2> QED
    BY <1>2, <2>2, <2>3
<1>3. CASE \E c, n \in {o \in KeyObjs : keys[o] # None}, same \in BOOLEAN :
             msg = ChangeKey(keys[c], keys[n], same)
  BY <1>3, ChangeKeySensible DEF TypeOK
<1>4. CASE \E n \in {w \in Writes : w <= MaxFrame - 1 - 7}, tx \in Modes :
             msg = WriteFileData(n, tx)
  <2>1. PICK n \in Writes, tx \in Modes : msg = WriteFileData(n, tx)
    BY <1>4
  <2>2. 8 + n \in Nat \ {0} /\ 8 \in 1 .. 8 + n
    BY SizesAssumption
  <2>3. msg = [Message(8 + n, tx, "CMAC") EXCEPT !.offset = 8]
    BY <2>1 DEF WriteFileData
  <2> QED
    BY <2>2, <2>3, MessageSensible
<1>5. CASE \E n \in {o \in KeyObjs : keys[o] # None} : msg = ChangeDefaultKey(keys[n])
  <2>1. PICK n \in KeyObjs : keys[n] # None /\ msg = ChangeDefaultKey(keys[n])
    BY <1>5
  <2> DEFINE len == 2 + (IF keys[n].bytes > 24 THEN keys[n].bytes ELSE 24) + 1
  <2>2. keys[n].bytes \in Nat
    BY <2>1 DEF TypeOK, Keys
  <2>3. len \in Nat \ {0} /\ 2 \in 1 .. len
    BY <2>2
  <2>4. msg = [Message(len, "ENCRYPTED", "CMAC") EXCEPT !.offset = 2]
    BY <2>1 DEF ChangeDefaultKey
  <2> HIDE DEF len
  <2> QED
    BY <2>3, <2>4, MessageSensible
<1> QED
  BY <1>1, <1>2, <1>3, <1>4, <1>5 DEF Messages

-----------------------------------------------------------------------------
(* Key objects                                                             *)

LEMMA SetKeySizeFields ==
  ASSUME NEW key \in Keys, NEW n \in Nat
  PROVE  LET s == SetKeySize(key, n) IN
         /\ s \in Keys
         /\ s.block = n /\ s.size = n /\ s.iv0 = n
         /\ s.type = key.type /\ s.bytes = key.bytes /\ s.iv = key.iv /\ s.cmac = key.cmac
  BY DEF SetKeySize, Keys

LEMMA SetKeyFields ==
  ASSUME NEW key \in Keys, NEW n \in Nat
  PROVE  LET s == SetKey(key, n) IN
         /\ s \in Keys
         /\ s.block = n /\ s.size = n /\ s.iv0 = n /\ s.bytes = n
         /\ s.type = key.type /\ s.iv = key.iv /\ s.cmac = key.cmac
<1> DEFINE s == SetKeySize(key, n)
<1>1. /\ s \in Keys
      /\ s.block = n /\ s.size = n /\ s.iv0 = n
      /\ s.type = key.type /\ s.iv = key.iv /\ s.cmac = key.cmac
  BY SetKeySizeFields
<1>2. SetKey(key, n) = [s EXCEPT !.bytes = n]
  BY DEF SetKey
<1> HIDE DEF s
<1> QED
  BY <1>1, <1>2 DEF Keys

\* An IV is replaced and nothing else.
LEMMA IvFields ==
  ASSUME NEW key \in Keys, NEW n \in Nat
  PROVE  LET s == [key EXCEPT !.iv = n] IN
         /\ s \in Keys
         /\ s.iv = n
         /\ s.type = key.type /\ s.bytes = key.bytes /\ s.size = key.size
         /\ s.block = key.block /\ s.iv0 = key.iv0 /\ s.cmac = key.cmac
  BY DEF Keys

\* cipher_init of a key that InitAccepts.
LEMMA CipherInitFields ==
  ASSUME NEW key \in Keys, InitAccepts(key), key.iv0 = key.size,
         key.size = 0 \/ key.bytes = key.size \/ key.type = "AES",
         key.size = 0 => key.bytes = 0
  PROVE  LET s == CipherInit(key) IN
         /\ s \in Keys
         /\ KeyShape(s)
         /\ s.iv = s.iv0 /\ s.type = key.type
         /\ s.bytes = IF key.bytes = 0 THEN s.size ELSE key.bytes
         /\ key.bytes # 0 /\ key.type # "AES" => s.size = key.size
<1> DEFINE known == SizeKnown(key)
           sized == IF key.type = "AES" THEN SetKeySize(key, 16)
                    ELSE [known EXCEPT !.block = 8]
           bytes == IF key.bytes = 0 THEN sized.size ELSE key.bytes
           s == CipherInit(key)
<1>1. /\ known \in Keys
      /\ known.size = known.iv0 /\ known.type = key.type /\ known.bytes = key.bytes
      /\ known.size = IF key.size = 0 THEN 8 ELSE key.size
  <2>1. CASE key.size = 0
    <3>1. known = SetKeySize(key, 8)
      BY <2>1 DEF SizeKnown
    <3> QED
      BY <2>1, <3>1, SetKeySizeFields
  <2>2. CASE key.size # 0
    BY <2>2 DEF SizeKnown
  <2> QED
    BY <2>1, <2>2
<1>2. s = [sized EXCEPT !.bytes = bytes, !.iv = sized.iv0]
  BY DEF CipherInit
<1>3. /\ sized \in Keys
      /\ sized.type = key.type /\ sized.bytes = key.bytes /\ sized.iv0 = sized.size
      /\ key.type = "AES" => sized.size = 16 /\ sized.block = 16
      /\ key.type # "AES" => sized.size = known.size /\ sized.block = 8
  <2>1. CASE key.type = "AES"
    BY <2>1, SetKeySizeFields
  <2>2. CASE key.type # "AES"
    <3>1. sized = [known EXCEPT !.block = 8]
      BY <2>2
    <3> HIDE DEF known, sized
    <3> QED
      BY <1>1, <2>2, <3>1 DEF Keys
  <2> QED
    BY <2>1, <2>2
<1> HIDE DEF sized, s
<1>4. bytes \in Nat
  BY <1>3 DEF Keys
<1> HIDE DEF bytes
<1>5. /\ s \in Keys
      /\ s.bytes = bytes /\ s.iv = sized.iv0
      /\ s.type = key.type /\ s.size = sized.size /\ s.block = sized.block
      /\ s.iv0 = sized.iv0
  BY <1>2, <1>3, <1>4 DEF Keys
<1>6. key.type \in KeyTypes
  BY DEF Keys
<1>7. /\ key.type = "2K3DES" => known.size \in {8, 16}
      /\ key.type = "3K3DES" => known.size = 24
  BY DEF InitAccepts
<1> HIDE DEF known
<1>8. KeyShape(s)
  BY <1>1, <1>3, <1>5, <1>6, <1>7 DEF KeyShape, KeyTypes, bytes
<1>9. /\ s.bytes = IF key.bytes = 0 THEN s.size ELSE key.bytes
      /\ key.bytes # 0 /\ key.type # "AES" => s.size = key.size
  BY <1>1, <1>3, <1>5 DEF bytes
<1> QED
  BY <1>3, <1>5, <1>8, <1>9 DEF s

\* A new object, of any length the constructor accepts.
LEMMA NewShaped ==
  ASSUME NEW kind \in KeyKinds, InitAccepts(New(kind))
  PROVE  LET s == CipherInit(New(kind)) IN
         s \in Keys /\ KeyShape(s) /\ s.bytes \in {kind.bytes, s.size}
<1> DEFINE b == Blank(kind.type)
<1>1. /\ b \in Keys
      /\ b.bytes = 0 /\ b.size = 0 /\ b.iv0 = 0
  BY DEF Blank, Keys, KeyKinds
<1> HIDE DEF b
<1>2. kind.bytes \in Nat
  BY DEF KeyKinds
<1> DEFINE n == New(kind)
<1>3. /\ n \in Keys
      /\ n.iv0 = n.size /\ n.bytes = n.size
      /\ n.bytes = kind.bytes
  <2>1. CASE kind.bytes = 0
    BY <1>1, <2>1 DEF New, b
  <2>2. CASE kind.bytes # 0
    <3>1. n = SetKey(b, kind.bytes)
      BY <2>2 DEF New, b
    <3> HIDE DEF n
    <3> QED
      BY <1>1, <1>2, <3>1, SetKeyFields
  <2> QED
    BY <2>1, <2>2
<1>4. InitAccepts(n)
  OBVIOUS
<1> HIDE DEF n
<1> DEFINE s == CipherInit(n)
<1>5. s \in Keys /\ KeyShape(s) /\ s.bytes = IF n.bytes = 0 THEN s.size ELSE n.bytes
  BY <1>3, <1>4, CipherInitFields
<1> HIDE DEF s
<1>6. s \in Keys /\ KeyShape(s) /\ s.bytes \in {kind.bytes, s.size}
  BY <1>3, <1>5
<1> QED
  BY <1>6 DEF n, s

-----------------------------------------------------------------------------
(* Session keys                                                            *)

LEMMA SoundFits ==
  ASSUME TypeOK, session_key # None, keys[session_key] # None
  PROVE  Fits(keys[session_key]) <=> Sound(keys[session_key])
<1> DEFINE key == keys[session_key]
<1>1. key \in Keys
  BY DEF TypeOK
<1>2. key.iv \in Nat /\ key.block \in Nat
  BY <1>1 DEF Keys
<1>3. ShortIv <=> key.iv < key.block
  BY DEF ShortIv
<1> HIDE DEF key
<1> QED
  BY <1>2, <1>3 DEF Fits, Sound, CipherTakes, key

\* The cipher takes whole blocks as long as the IV is one.
LEMMA SoundCrypts ==
  ASSUME NEW key \in Keys, Sound(key), NEW len \in Nat, len % key.block = 0
  PROVE  CanCrypt(key, len) <=> key.iv = key.block
  BY DEF CanCrypt, CipherTakes, Sound

LEMMA SoundBlock ==
  ASSUME NEW key \in Keys, Sound(key)
  PROVE  key.block \in Blocks
  BY BlockOfCipher DEF Sound, Keys

\* A MAC needs a whole block as IV and leaves one.
LEMMA MacFacts ==
  ASSUME NEW key \in Keys, Sound(key), NEW n \in Nat \ {0}
  PROVE  /\ CanMac(key, n) <=> key.iv = key.block
         /\ AfterMac(key, n) = [key EXCEPT !.iv = key.block]
<1> DEFINE b == key.block
           r == RoundUp(n, b)
<1>1. b \in Blocks /\ b \in Nat /\ b > 0
  BY SoundBlock DEF Blocks
<1>2. r \in Nat /\ r % b = 0 /\ r >= b
  <2>1. n \in Nat /\ n > 0
    OBVIOUS
  <2> HIDE DEF b
  <2> QED
    BY <1>1, <2>1, RoundUpFacts
<1>3. key.cmac = b
  BY DEF Sound
<1> HIDE DEF b, r
<1>4. MacInput(key, n) = r
  BY <1>1, <1>2, <1>3 DEF MacInput, Smaller, b, r
<1>5. CanMac(key, n) <=> key.iv = b
  BY <1>1, <1>2, <1>3, <1>4, SoundCrypts DEF CanMac, b
<1>6. Smaller(b, r) = b
  BY <1>1, <1>2 DEF Smaller
<1> QED
  BY <1>4, <1>5, <1>6 DEF AfterMac, b

\* So does a command.
LEMMA SendFacts ==
  ASSUME NEW key \in Keys, Sound(key), NEW msg, Sensible(msg)
  PROVE  /\ CanSend(key, msg) <=> key.iv = key.block
         /\ KeyAfterSend(key, msg) = [key EXCEPT !.iv = key.block]
<1> DEFINE b == key.block
           e == Encrypted(key, msg)
<1>1. b \in Blocks /\ b \in Nat
  BY SoundBlock DEF Blocks
<1>2. msg.len \in Nat \ {0} /\ msg.offset \in Nat \ {0} /\ msg.tx \in Modes
  BY DEF Sensible, MessageRecords
<1>3. CASE msg.tx = "ENCRYPTED"
  <2>1. Protected(msg) \in Nat \ {0}
    BY <1>3 DEF Sensible
  <2>2. e = RoundUp(Protected(msg), b)
    BY DEF Encrypted, Protected
  <2>3. e \in Nat /\ e % b = 0 /\ e >= b
    BY <1>1, <2>1, <2>2, RoundUpFacts
  <2> HIDE DEF e
  <2>4. CanCrypt(key, e) <=> key.iv = b
    BY <2>3, SoundCrypts
  <2>5. Smaller(b, msg.offset + e) = b
    BY <1>1, <1>2, <2>3 DEF Smaller
  <2> QED
    BY <1>3, <2>4, <2>5 DEF CanSend, KeyAfterSend, AfterEncrypt, e
<1>4. CASE msg.tx # "ENCRYPTED"
  BY <1>2, <1>4, MacFacts DEF CanSend, KeyAfterSend
<1> QED
  BY <1>3, <1>4

\* An encrypted answer leaves a block as IV, or the whole answer if that is less.
LEMMA DecryptFacts ==
  ASSUME NEW key \in Keys, Sound(key), NEW len \in Nat
  PROVE  /\ CanCrypt(key, AddPadding(len)) <=> key.iv = key.block
         /\ AfterDecrypt(key, len) = [key EXCEPT !.iv = Smaller(key.block, len)]
         /\ Smaller(key.block, len) \in Nat
         /\ Smaller(key.block, len) <= key.block
         /\ Smaller(key.block, len) < key.block => len < key.block
<1>1. key.block \in Blocks
  BY SoundBlock
<1>2. AddPadding(len) \in Nat /\ AddPadding(len) % key.block = 0
  BY <1>1, PaddingFits
<1>3. key.block \in Nat
  BY <1>1 DEF Blocks
<1> QED
  BY <1>2, <1>3, SoundCrypts DEF AfterDecrypt, Smaller

\* Replacing the IV by a block or less keeps a session key what it was.
LEMMA IvKeeps ==
  ASSUME NEW key \in Keys, Sound(key), KeyShape(key), NEW n \in Nat, n <= key.block
  PROVE  LET s == [key EXCEPT !.iv = n] IN
         s \in Keys /\ Sound(s) /\ KeyShape(s) /\ s.type = key.type /\ s.block = key.block
           /\ s.iv = n
<1> DEFINE s == [key EXCEPT !.iv = n]
<1>1. /\ s \in Keys /\ s.iv = n
      /\ s.type = key.type /\ s.bytes = key.bytes /\ s.size = key.size
      /\ s.block = key.block /\ s.iv0 = key.iv0 /\ s.cmac = key.cmac
  BY IvFields
<1> HIDE DEF s
<1> QED
  BY <1>1 DEF Sound, KeyShape, s

\* What a command's frame is.
LEMMA FrameTyped ==
  ASSUME NEW key \in Keys, key.block \in Blocks, NEW msg, Sensible(msg)
  PROVE  /\ FrameOf(key, msg) \in Frames
         /\ FrameOf(key, msg).mac # {} => FrameOf(key, msg).mac = MacSent(key.block)
<1>1. /\ msg.len \in Nat /\ msg.offset \in Nat
      /\ msg.tx \in Modes
  BY DEF Sensible, MessageRecords
<1>2. CASE msg.tx = "PLAIN"
  BY <1>1, <1>2 DEF FrameOf, Frames
<1>3. CASE msg.tx = "CMAC"
  <2>1. MacSent(key.block) \subseteq Positions
    BY DEF MacSent, Positions, Blocks
  <2>2. FrameOf(key, msg) = [len |-> msg.len + 8, enc |-> 0, mac |-> MacSent(key.block)]
    BY <1>3 DEF FrameOf
  <2> QED
    BY <1>1, <2>1, <2>2 DEF Frames
<1>4. CASE msg.tx = "ENCRYPTED"
  <2>1. Encrypted(key, msg) \in Nat
    BY <1>4, RoundUpFacts DEF Encrypted, Sensible, Protected
  <2> QED
    BY <1>1, <1>4, <2>1 DEF FrameOf, Frames
<1> QED
  BY <1>1, <1>2, <1>3, <1>4 DEF Modes

-----------------------------------------------------------------------------
(* What the actions do to the key object                                   *)

\* One key object is replaced.
LEMMA KeyPut ==
  ASSUME TypeOK, KeysShaped, NEW o \in KeyObjs, NEW key \in Keys, KeyShape(key),
         keys' = [keys EXCEPT ![o] = key]
  PROVE  /\ keys' \in [KeyObjs -> Keys \cup {None}]
         /\ KeysShaped'
         /\ keys'[o] = key /\ keys'[o] # None
         /\ \A p \in KeyObjs \ {o} : keys'[p] = keys[p]
<1>1. /\ keys' \in [KeyObjs -> Keys \cup {None}]
      /\ keys'[o] = key
      /\ \A p \in KeyObjs \ {o} : keys'[p] = keys[p]
  BY DEF TypeOK
<1>2. key # None
  BY NoneAssumption
<1>3. KeysShaped'
  BY <1>1 DEF KeysShaped
<1> QED
  BY <1>1, <1>2, <1>3

\* The first half of the handshake ends with a key object as cipher_init left it, with
\* its own or the received bytes as IV; it is only refused by the cipher if it is not of
\* a kind the card's key is.
LEMMA ChallengeEffect ==
  ASSUME IInv, NEW rndA \in Nat, ReceiveChallenge(rndA)
  PROVE  LET o == call.key IN
         /\ o \in KeyObjs /\ keys[o] \in Keys /\ KeyShape(keys[o])
         /\ ~card.session /\ ~is_authenticated
         /\ \/ /\ keys' = keys
               /\ RaiseWith("refused")
            \/ \E key \in Keys :
                 /\ keys' = [keys EXCEPT ![o] = key]
                 /\ KeyShape(key) /\ key.iv >= key.block
                 /\ key.bytes \in {keys[o].bytes, key.size}
                 /\ \/ RaiseWith("length")
                    \/ /\ RaiseWith("cipher")
                       /\ ~(card.kind \in TestedKinds /\ IsKind(keys[o], card.kind))
                    \/ /\ Passing(key)
                       /\ call' = [call EXCEPT !.at = "proof", !.rndA = rndA]
                       /\ frame' = [len |-> 1 + rndA + ChallengeLength(card.kind.type),
                                    enc |-> rndA + ChallengeLength(card.kind.type),
                                    mac |-> {}]
                       /\ raised' = raised
<1> DEFINE o == call.key
           k == keys[o]
           rndB == ChallengeLength(card.kind.type)
           ready == CipherInit(k)
           chained == [ready EXCEPT !.iv = rndB]
<1>1. /\ call \in Handshakes /\ call # None /\ call.at = "challenge"
      /\ o \in KeyObjs
  BY DEF IInv, TypeOK, ReceiveChallenge, Commands, Handshakes
<1>2. /\ k \in Keys /\ k # None /\ KeyShape(k)
      /\ ~card.session /\ ~is_authenticated
  BY <1>1 DEF IInv, TypeOK, InHandshake, KeysShaped
<1>3. rndB \in Blocks /\ rndB \in Nat
  BY DEF ChallengeLength, Blocks
<1>4. CASE WrongType(k, rndB) \/ ~InitAccepts(k)
  BY <1>1, <1>2, <1>4 DEF ReceiveChallenge
<1>5. CASE ~WrongType(k, rndB) /\ InitAccepts(k)
  <2>1. /\ ready \in Keys /\ KeyShape(ready)
        /\ ready.iv = ready.iv0 /\ ready.type = k.type
        /\ ready.bytes = IF k.bytes = 0 THEN ready.size ELSE k.bytes
        /\ k.bytes # 0 /\ k.type # "AES" => ready.size = k.size
    <3>1. /\ k.iv0 = k.size
          /\ k.size = 0 \/ k.bytes = k.size \/ k.type = "AES"
          /\ k.size # 0
      BY <1>2 DEF KeyShape, Keys, KeyTypes
    <3> HIDE DEF k
    <3> QED
      BY <1>2, <1>5, <3>1, CipherInitFields
  <2>2. k.type \in {"3K3DES", "AES"} => rndB = 16
    BY <1>5 DEF WrongType
  <2>3. WrongType(keys[call.key], ChallengeLength(card.kind.type)) \/ ~InitAccepts(keys[call.key]) <=> FALSE
    BY <1>5
  <2>4. IF ~CanCrypt(ready, rndB)
        THEN RaiseWith("cipher") /\ keys' = [keys EXCEPT ![o] = ready]
        ELSE IF ~CanCrypt(chained, rndA + rndB)
        THEN /\ RaiseWith(IF CanCrypt(chained, 0) THEN "length" ELSE "cipher")
             /\ keys' = [keys EXCEPT ![o] = chained]
        ELSE /\ keys' = [keys EXCEPT ![o] = chained]
             /\ call' = [call EXCEPT !.at = "proof", !.rndA = rndA]
             /\ frame' = [len |-> 1 + rndA + rndB, enc |-> rndA + rndB, mac |-> {}]
             /\ raised' = raised
    BY <2>3 DEF ReceiveChallenge
  <2>5. /\ k.type \in KeyTypes /\ k.type = ready.type
        /\ ready.size \in Nat /\ ready.block \in Nat
    BY <1>2, <2>1 DEF Keys
  <2> HIDE DEF k, ready
  <2>6. /\ chained \in Keys
        /\ chained.iv = rndB
        /\ chained.type = ready.type /\ chained.bytes = ready.bytes
        /\ chained.size = ready.size
        /\ chained.block = ready.block /\ chained.iv0 = ready.iv0
    BY <1>3, <2>1, IvFields
  <2> HIDE DEF chained
  <2>7. /\ ready.iv >= ready.block
        /\ ready.block \in Blocks
        /\ ready.block = CipherBlock(ready.type)
    BY <2>1, <2>5 DEF KeyShape, KeyTypes, Blocks, CipherBlock
  <2>8. KeyShape(chained) /\ chained.iv >= chained.block
    BY <1>3, <2>1, <2>2, <2>5, <2>6 DEF KeyShape, KeyTypes, Blocks
  <2> HIDE DEF rndB
  <2>9. ready.bytes \in {k.bytes, ready.size} /\ chained.bytes \in {k.bytes, chained.size}
    BY <2>1, <2>6
  <2> USE DEF rndB
  <2>10. CASE ~CanCrypt(ready, rndB)
    <3>1. ~(card.kind \in TestedKinds /\ IsKind(k, card.kind))
      <4> SUFFICES ASSUME card.kind \in TestedKinds, IsKind(k, card.kind) PROVE FALSE
        OBVIOUS
      <4>1. \/ k.type = "2K3DES" /\ k.bytes = 8 /\ rndB = 8
            \/ k.type = "AES" /\ k.bytes = 16 /\ rndB = 16
        BY DEF TestedKinds, IsKind, ChallengeLength
      <4>2. \/ ready.type = "2K3DES" /\ ready.bytes = 8 /\ ready.size = 8 /\ rndB = 8
            \/ ready.type = "AES" /\ ready.bytes = 16 /\ ready.size = 16 /\ rndB = 16
        BY <2>1, <4>1 DEF KeyShape
      <4>3. ready.iv = ready.size
        BY <2>1 DEF KeyShape
      <4>4. CanCrypt(ready, rndB)
        BY <4>2, <4>3 DEF CanCrypt, CipherTakes, KeyLengths, CipherBlock
      <4> QED
        BY <2>10, <4>4
    <3> QED
      BY <1>1, <1>2, <2>1, <2>4, <2>7, <2>10, <2>9, <3>1 DEF k
  <2>11. CASE CanCrypt(ready, rndB) /\ ~CanCrypt(chained, rndA + rndB)
    <3>1. ASSUME card.kind \in TestedKinds, IsKind(k, card.kind)
          PROVE  CanCrypt(chained, 0)
      <4>1. /\ ready.bytes \in KeyLengths(ready.type)
            /\ 0 % CipherBlock(ready.type) = 0
        BY <2>11 DEF CanCrypt, CipherTakes, CipherBlock
      <4>2. rndB = CipherBlock(ready.type)
        BY <2>5, <3>1 DEF TestedKinds, IsKind, ChallengeLength, CipherBlock
      <4> QED
        BY <2>6, <4>1, <4>2 DEF CanCrypt, CipherTakes
    <3>2. RaiseWith("length")
            \/ (RaiseWith("cipher") /\ ~(card.kind \in TestedKinds /\ IsKind(k, card.kind)))
      BY <2>4, <2>11, <3>1
    <3>3. keys' = [keys EXCEPT ![o] = chained]
      BY <2>4, <2>11
    <3> QED
      BY <1>1, <1>2, <2>6, <2>8, <2>9, <3>2, <3>3 DEF k
  <2>12. CASE CanCrypt(ready, rndB) /\ CanCrypt(chained, rndA + rndB)
    <3>1. CipherTakes(ready.type, ready.bytes, ready.iv)
      BY <2>12 DEF CanCrypt
    <3>2. Passing(ready)
      BY <2>1, <2>5, <3>1 DEF Passing, CipherTakes, KeyLengths, CipherBlock, KeyShape, KeyTypes
    <3>3. Passing(chained)
      BY <2>6, <3>2 DEF Passing
    <3> QED
      BY <1>1, <1>2, <2>4, <2>6, <2>8, <2>12, <2>9, <3>3 DEF k
  <2> QED
    BY <2>10, <2>11, <2>12
<1> QED
  BY <1>4, <1>5

\* The second half is never refused by the cipher: the card begins a session for a proof
\* it accepts, and the bytes of both challenges make a session key of one block.
LEMMA ProofEffect ==
  ASSUME IInv, ReceiveProof
  PROVE  LET o == call.key IN
         /\ o \in KeyObjs
         /\ \E key \in Keys :
              /\ keys' = [keys EXCEPT ![o] = key]
              /\ KeyShape(key) /\ Sound(key) /\ key.iv = key.block
              /\ key.type = card.kind.type
         /\ is_authenticated' = TRUE /\ session_key' = o /\ call' = None
         /\ frame' = frame /\ raised' = raised /\ card' = card
<1> DEFINE o == call.key
           k == keys[o]
           rndB == ChallengeLength(card.kind.type)
           iv == Smaller(k.block, call.rndA + rndB)
           chained == [k EXCEPT !.iv = iv]
           n == SessionKeyBytes(k, call.rndA, rndB)
           session == SetKey(chained, n)
           key == ClearIv(GenerateCmac(session))
<1>1. /\ call \in Handshakes /\ call # None /\ call.at = "proof"
      /\ o \in KeyObjs
  BY DEF IInv, TypeOK, ReceiveProof, Commands, Handshakes
<1>2. k \in Keys /\ KeyShape(k) /\ Passing(k) /\ ProofAccepted
  BY <1>1 DEF IInv, TypeOK, InHandshake, KeysShaped, ReceiveProof
<1>3. /\ card.kind.type = k.type
      /\ call.rndA = rndB
      /\ k.size \in Nat /\ k.block \in Nat
  BY <1>2 DEF ProofAccepted, Keys
<1>4. \/ /\ k.type = "2K3DES" /\ k.bytes = 8 /\ k.size = 8 /\ k.block = 8
         /\ call.rndA = 8 /\ rndB = 8
      \/ /\ k.type = "AES" /\ k.bytes = 16 /\ k.size = 16 /\ k.block = 16
         /\ call.rndA = 16 /\ rndB = 16
  BY <1>2, <1>3 DEF Passing, KeyShape, ChallengeLength
<1>5. iv = k.block /\ iv \in Nat /\ n = k.block
  BY <1>4 DEF Smaller, SessionKeyBytes, Slice
<1>6. /\ ReceiveProof
      /\ chained = [keys[call.key] EXCEPT !.iv = Smaller(keys[call.key].block, call.rndA + rndB)]
      /\ session = SetKey(chained, SessionKeyBytes(keys[call.key], call.rndA, rndB))
  OBVIOUS
<1>7. IF ~CanCrypt(chained, call.rndA)
      THEN /\ RaiseWith("cipher")
           /\ keys' = [keys EXCEPT ![o] = chained]
           /\ UNCHANGED <<is_authenticated, session_key>>
      ELSE /\ is_authenticated' = TRUE
           /\ IF SubkeysFor(session)
              THEN /\ keys' = [keys EXCEPT ![o] = key]
                   /\ session_key' = o
                   /\ call' = None
                   /\ UNCHANGED <<frame, raised>>
              ELSE /\ RaiseWith("cipher")
                   /\ keys' = [keys EXCEPT ![o] = session]
                   /\ UNCHANGED session_key
  BY <1>6 DEF ReceiveProof
<1>8. card' = card
  BY DEF ReceiveProof
<1> HIDE DEF k, n, iv
<1>9. /\ chained \in Keys
      /\ chained.iv = k.block
      /\ chained.type = k.type /\ chained.bytes = k.bytes
  BY <1>2, <1>5, IvFields
<1> HIDE DEF chained
<1>10. n \in Nat
  BY <1>3, <1>5
<1>11. /\ session \in Keys
       /\ session.block = n /\ session.size = n /\ session.iv0 = n /\ session.bytes = n
       /\ session.type = k.type
  BY <1>9, <1>10, SetKeyFields
<1> HIDE DEF session
<1>12. CanCrypt(chained, call.rndA)
  BY <1>4, <1>9 DEF CanCrypt, CipherTakes, KeyLengths, CipherBlock
<1>13. SubkeysFor(session)
  BY <1>4, <1>5, <1>11 DEF SubkeysFor, CipherTakes, KeyLengths, CipherBlock
<1>14. CipherBlock(session.type) = n
  BY <1>4, <1>5, <1>11 DEF CipherBlock
<1>15. /\ key \in Keys
       /\ key.iv = n /\ key.cmac = n
       /\ key.block = n /\ key.size = n /\ key.iv0 = n /\ key.bytes = n
       /\ key.type = k.type
  <2> DEFINE g == GenerateCmac(session)
  <2>1. g = [session EXCEPT !.cmac = n]
    BY <1>14 DEF GenerateCmac
  <2> HIDE DEF g
  <2>2. /\ g \in Keys
        /\ g.cmac = n
        /\ g.block = n /\ g.size = n /\ g.iv0 = n /\ g.bytes = n
        /\ g.type = k.type
    BY <1>10, <1>11, <2>1 DEF Keys
  <2>3. key = [g EXCEPT !.iv = n]
    BY <2>2 DEF ClearIv, g
  <2> HIDE DEF key
  <2> QED
    BY <1>10, <2>2, <2>3, IvFields
<1> HIDE DEF key
<1>16. KeyShape(key) /\ Sound(key)
  BY <1>4, <1>5, <1>15 DEF KeyShape, Sound, KeyLengths, CipherBlock
<1> QED
  BY <1>1, <1>3, <1>7, <1>8, <1>12, <1>13, <1>15, <1>16

\* A method within a session leaves a whole block as IV, or, if a short answer left less
\* before, is refused.
LEMMA SendEffect ==
  ASSUME IInv, NEW msg \in Messages, Send(msg)
  PROVE  LET key == keys[session_key] IN
         /\ session_key \in KeyObjs /\ session_key # None
         /\ key \in Keys /\ KeyShape(key) /\ Sound(key)
         /\ is_authenticated
         /\ session_key' = session_key /\ card' = card
         /\ is_authenticated' = is_authenticated
         /\ Sensible(msg)
         /\ \/ /\ keys' = [keys EXCEPT ![session_key] = [key EXCEPT !.iv = key.block]]
               /\ call' = [at |-> "sent", rx |-> msg.rx, ends |-> msg.ends, new |-> msg.new]
               /\ frame' = FrameOf(key, msg)
               /\ raised' = None
            \/ ShortIv /\ RaiseWith("cipher") /\ keys' = keys
<1> DEFINE key == keys[session_key]
<1>1. /\ is_authenticated
      /\ session_key \in KeyObjs /\ session_key # None
      /\ key \in Keys /\ key # None /\ KeyShape(key) /\ Sound(key)
  BY DEF IInv, TypeOK, InSession, KeysShaped, Send
<1>2. Sensible(msg)
  BY MessagesSensible DEF IInv
<1>3. key.iv \in Nat /\ key.block \in Nat /\ key.iv <= key.block
  BY <1>1 DEF Keys, Sound
<1>4. ShortIv <=> key.iv # key.block
  BY <1>1, <1>3 DEF ShortIv
<1>5. /\ CanSend(key, msg) <=> key.iv = key.block
      /\ KeyAfterSend(key, msg) = [key EXCEPT !.iv = key.block]
  BY <1>1, <1>2, SendFacts
<1>6. /\ session_key' = session_key /\ card' = card
      /\ is_authenticated' = is_authenticated
      /\ IF CanSend(key, msg)
         THEN /\ keys' = [keys EXCEPT ![session_key] = KeyAfterSend(key, msg)]
              /\ call' = [at |-> "sent", rx |-> msg.rx, ends |-> msg.ends, new |-> msg.new]
              /\ frame' = FrameOf(key, msg)
              /\ raised' = None
         ELSE RaiseWith("cipher") /\ UNCHANGED keys
  BY DEF Send
<1> HIDE DEF key
<1> QED
  BY <1>1, <1>2, <1>4, <1>5, <1>6 DEF key

-----------------------------------------------------------------------------
(* The steps keep the invariant                                            *)

LEMMA InitEstablishes == Init => IInv
<1> SUFFICES ASSUME Init PROVE IInv
  OBVIOUS
<1> USE DEF Init
<1>1. TypeOK
  BY SizesAssumption DEF TypeOK, KeyKinds
<1>2. /\ KeysShaped /\ InHandshake /\ InCommand /\ InSession /\ Quiet
      /\ RefusedInTime
  BY NoneAssumption
  DEF KeysShaped, InHandshake, InCommand, InSession, Quiet, RefusedInTime
<1> QED
  BY <1>1, <1>2 DEF IInv

LEMMA ConstructKeeps ==
  ASSUME IInv, NEW o \in KeyObjs, NEW kind \in Kinds, Construct(o, kind)
  PROVE  IInv' /\ (ShortIv' => ShortIv)
<1>1. /\ call = None /\ o # session_key
      /\ UNCHANGED <<is_authenticated, session_key, call, frame, card>>
      /\ raised' \in {None, "refused"}
      /\ TypeOK /\ KeysShaped
  BY DEF Construct, IInv
<1>2. /\ keys' \in [KeyObjs -> Keys \cup {None}]
      /\ KeysShaped'
      /\ \A p \in KeyObjs \ {o} : keys'[p] = keys[p]
  <2>1. CASE InitAccepts(New(kind))
    <3>1. kind \in KeyKinds
      BY SizesAssumption
    <3>2. CipherInit(New(kind)) \in Keys /\ KeyShape(CipherInit(New(kind)))
      BY <2>1, <3>1, NewShaped
    <3>3. keys' = [keys EXCEPT ![o] = CipherInit(New(kind))]
      BY <2>1 DEF Construct
    <3> QED
      BY <1>1, <3>2, <3>3, KeyPut
  <2>2. CASE ~InitAccepts(New(kind))
    <3>1. keys' = keys
      BY <2>2 DEF Construct
    <3> QED
      BY <1>1, <3>1 DEF TypeOK, KeysShaped
  <2> QED
    BY <2>1, <2>2
<1>3. TypeOK'
  BY <1>1, <1>2 DEF TypeOK
<1>4. session_key # None => keys'[session_key] = keys[session_key]
  BY <1>1, <1>2 DEF TypeOK
<1>5. InSession'
  BY <1>1, <1>4 DEF IInv, InSession
<1>6. InHandshake' /\ InCommand' /\ Quiet'
  BY <1>1 DEF IInv, InHandshake, InCommand, Quiet
<1>7. RefusedInTime'
  BY <1>1, NoneAssumption DEF RefusedInTime
<1>8. ShortIv' => ShortIv
  BY <1>1, <1>4 DEF ShortIv
<1> QED
  BY <1>2, <1>3, <1>5, <1>6, <1>7, <1>8 DEF IInv

LEMMA AuthenticateKeeps ==
  ASSUME IInv, NEW o \in KeyObjs, NEW kind \in CardKinds, Authenticate(o, kind)
  PROVE  IInv' /\ (ShortIv' => ShortIv)
<1> DEFINE sent == [len |-> 2, enc |-> 0, mac |-> {}]
           asked == [at |-> "challenge", key |-> o, rndA |-> 0]
           used == [kind |-> kind, session |-> FALSE]
<1>1. /\ call = None /\ keys[o] # None
      /\ is_authenticated' = FALSE
      /\ card' = used /\ call' = asked /\ frame' = sent
      /\ raised' = None /\ keys' = keys /\ session_key' = session_key
      /\ TypeOK
  BY DEF Authenticate, IInv
<1>2. /\ sent \in Frames /\ sent.mac = {}
      /\ asked \in Handshakes /\ asked.at = "challenge" /\ asked.key = o
      /\ used \in [kind : CardKinds, session : BOOLEAN] /\ used.session = FALSE
  BY DEF Frames, Handshakes
<1> HIDE DEF sent, asked, used
<1>3. TypeOK'
  BY <1>1, <1>2 DEF TypeOK
<1>4. KeysShaped' /\ InSession'
  BY <1>1 DEF IInv, KeysShaped, InSession
<1>5. InHandshake' /\ InCommand' /\ Quiet'
  BY <1>1, <1>2 DEF InHandshake, InCommand, Quiet
<1>6. RefusedInTime'
  BY <1>1, NoneAssumption DEF RefusedInTime
<1>7. ShortIv' => ShortIv
  BY <1>1 DEF ShortIv
<1> QED
  BY <1>3, <1>4, <1>5, <1>6, <1>7 DEF IInv

LEMMA ReceiveChallengeKeeps ==
  ASSUME IInv, NEW rndA \in Nat, ReceiveChallenge(rndA)
  PROVE  IInv' /\ (ShortIv' => ShortIv)
<1> DEFINE o == call.key
           rndB == ChallengeLength(card.kind.type)
           exchanged == [len |-> 1 + rndA + rndB, enc |-> rndA + rndB, mac |-> {}]
<1>1. /\ o \in KeyObjs /\ keys[o] \in Keys /\ KeyShape(keys[o])
      /\ ~card.session /\ ~is_authenticated
      /\ TypeOK /\ KeysShaped /\ InSession
      /\ call \in Handshakes /\ call # None /\ call.at = "challenge"
      /\ raised = None
  BY ChallengeEffect DEF IInv, TypeOK, ReceiveChallenge, Commands, Quiet
<1>2. /\ is_authenticated' = is_authenticated /\ session_key' = session_key
      /\ card' = card
  BY DEF ReceiveChallenge
<1>3. exchanged \in Frames /\ exchanged.mac = {}
  BY DEF Frames, ChallengeLength
<1> HIDE DEF exchanged
<1>4. ASSUME keys' = keys, RaiseWith("refused")
      PROVE  IInv' /\ (ShortIv' => ShortIv)
  <2>1. call' = None /\ frame' = None /\ raised' = "refused"
    BY <1>4 DEF RaiseWith
  <2>2. TypeOK' /\ KeysShaped' /\ InSession'
    BY <1>1, <1>2, <1>4, <2>1 DEF TypeOK, KeysShaped, InSession
  <2>3. /\ InHandshake' /\ InCommand' /\ Quiet' /\ RefusedInTime'
        /\ ShortIv' => ShortIv
    BY <1>2, <1>4, <2>1
    DEF InHandshake, InCommand, Quiet, RefusedInTime, ShortIv
  <2> QED
    BY <2>2, <2>3 DEF IInv
<1>5. ASSUME NEW key \in Keys, keys' = [keys EXCEPT ![o] = key],
             KeyShape(key), key.iv >= key.block,
             \/ RaiseWith("length") \/ RaiseWith("cipher")
             \/ /\ Passing(key)
                /\ call' = [call EXCEPT !.at = "proof", !.rndA = rndA]
                /\ frame' = exchanged
                /\ raised' = raised
      PROVE  IInv' /\ (ShortIv' => ShortIv)
  <2>1. /\ keys' \in [KeyObjs -> Keys \cup {None}]
        /\ KeysShaped'
        /\ keys'[o] = key /\ keys'[o] # None
        /\ \A p \in KeyObjs \ {o} : keys'[p] = keys[p]
    BY <1>1, <1>5, KeyPut
  <2>2. InSession'
    BY <1>1, <1>2, <2>1 DEF InSession, TypeOK
  <2>3. ShortIv' => ShortIv
    <3>1. key.iv \in Nat /\ key.block \in Nat
      BY DEF Keys
    <3> QED
      BY <1>1, <1>2, <1>5, <2>1, <3>1 DEF ShortIv, TypeOK
  <2>4. CASE RaiseWith("length") \/ RaiseWith("cipher")
    <3>1. call' = None /\ frame' = None /\ raised' \in {"length", "cipher"}
      BY <2>4 DEF RaiseWith
    <3>2. TypeOK'
      BY <1>1, <1>2, <2>1, <3>1 DEF TypeOK
    <3>3. InHandshake' /\ InCommand' /\ Quiet' /\ RefusedInTime'
      BY <1>1, <1>2, <3>1
      DEF InHandshake, InCommand, Quiet, RefusedInTime
    <3> QED
      BY <2>1, <2>2, <2>3, <3>2, <3>3 DEF IInv
  <2>5. CASE /\ Passing(key)
             /\ call' = [call EXCEPT !.at = "proof", !.rndA = rndA]
             /\ frame' = exchanged
             /\ raised' = raised
    <3>1. call' \in Handshakes /\ call'.at = "proof" /\ call'.key = o
      BY <1>1, <2>5 DEF Handshakes
    <3>2. TypeOK'
      BY <1>1, <1>2, <1>3, <2>1, <2>5, <3>1 DEF TypeOK
    <3>3. InHandshake' /\ InCommand' /\ Quiet'
      BY <1>1, <1>2, <1>3, <2>1, <2>5, <3>1
      DEF InHandshake, InCommand, Quiet
    <3>4. RefusedInTime'
      BY <1>1, <2>5, NoneAssumption DEF RefusedInTime
    <3> QED
      BY <2>1, <2>2, <2>3, <3>2, <3>3, <3>4 DEF IInv
  <2> QED
    BY <1>5, <2>4, <2>5
<1> QED
  BY <1>4, <1>5, ChallengeEffect DEF exchanged

LEMMA CardProveKeeps ==
  ASSUME IInv, CardProve
  PROVE  IInv' /\ (ShortIv' => ShortIv)
<1>1. /\ call # None /\ call.at = "proof" /\ ProofAccepted
      /\ card' = [card EXCEPT !.session = TRUE]
      /\ frame' = None
      /\ UNCHANGED <<keys, is_authenticated, session_key, call, raised>>
      /\ TypeOK
  BY DEF CardProve, IInv
<1>2. /\ card' \in [kind : CardKinds, session : BOOLEAN]
      /\ card'.kind = card.kind
  BY <1>1 DEF TypeOK
<1>3. TypeOK'
  BY <1>1, <1>2 DEF TypeOK
<1>4. ProofAccepted'
  BY <1>1, <1>2 DEF ProofAccepted
<1>5. InHandshake'
  BY <1>1, <1>4 DEF IInv, InHandshake
<1>6. KeysShaped' /\ InCommand' /\ InSession' /\ Quiet'
  BY <1>1, <1>2 DEF IInv, KeysShaped, InCommand, InSession, Quiet
<1>7. RefusedInTime'
  BY <1>1, NoneAssumption DEF IInv, Quiet, RefusedInTime
<1>8. ShortIv' => ShortIv
  BY <1>1 DEF ShortIv
<1> QED
  BY <1>3, <1>5, <1>6, <1>7, <1>8 DEF IInv

LEMMA ReceiveProofKeeps ==
  ASSUME IInv, ReceiveProof
  PROVE  IInv' /\ ~ShortIv' /\ raised' = None
<1> DEFINE o == call.key
<1>1. PICK key \in Keys :
        /\ keys' = [keys EXCEPT ![o] = key]
        /\ KeyShape(key) /\ Sound(key) /\ key.iv = key.block
        /\ key.type = card.kind.type
  BY ProofEffect
<1>2. /\ o \in KeyObjs
      /\ is_authenticated' = TRUE /\ session_key' = o /\ call' = None
      /\ frame' = frame /\ raised' = raised /\ card' = card
  BY ProofEffect
<1>3. /\ TypeOK /\ KeysShaped
      /\ call # None /\ call.at = "proof" /\ raised = None
  BY DEF IInv, Quiet, ReceiveProof
<1> HIDE DEF o
<1>4. /\ keys' \in [KeyObjs -> Keys \cup {None}]
      /\ KeysShaped'
      /\ keys'[o] = key /\ keys'[o] # None
  BY <1>1, <1>2, <1>3, KeyPut
<1>5. TypeOK'
  BY <1>2, <1>3, <1>4 DEF TypeOK
<1>6. o # None
  BY <1>2, NoneAssumption
<1>7. InSession'
  BY <1>1, <1>2, <1>4, <1>6 DEF InSession
<1>8. InHandshake' /\ InCommand' /\ Quiet'
  BY <1>2 DEF InHandshake, InCommand, Quiet
<1>9. RefusedInTime'
  BY <1>2, <1>3, NoneAssumption DEF RefusedInTime
<1>10. ~ShortIv'
  <2>1. key.block \in Nat
    BY DEF Keys
  <2> QED
    BY <1>1, <1>2, <1>4, <2>1 DEF ShortIv
<1> QED
  BY <1>2, <1>3, <1>4, <1>5, <1>7, <1>8, <1>9, <1>10 DEF IInv

LEMMA FailKeeps ==
  ASSUME IInv, Fail
  PROVE  IInv' /\ (ShortIv' => ShortIv)
<1>1. /\ call' = None /\ frame' = None /\ raised' = "refused"
      /\ UNCHANGED <<keys, is_authenticated, session_key>>
      /\ card' \in {card, [card EXCEPT !.session = FALSE]}
      /\ TypeOK
  BY DEF Fail, RaiseWith, IInv
<1>2. /\ card' \in [kind : CardKinds, session : BOOLEAN]
      /\ card'.kind = card.kind
  BY <1>1 DEF TypeOK
<1>3. TypeOK'
  BY <1>1, <1>2 DEF TypeOK
<1>4. KeysShaped' /\ InSession'
  BY <1>1, <1>2 DEF IInv, KeysShaped, InSession
<1>5. InHandshake' /\ InCommand' /\ Quiet' /\ RefusedInTime'
  BY <1>1 DEF InHandshake, InCommand, Quiet, RefusedInTime
<1>6. ShortIv' => ShortIv
  BY <1>1 DEF ShortIv
<1> QED
  BY <1>3, <1>4, <1>5, <1>6 DEF IInv

\* A command or an answer replaces the IV of the session key by a block or less.
LEMMA IvReplaced ==
  ASSUME IInv, session_key # None, Sound(keys[session_key]),
         NEW n \in Nat, n <= keys[session_key].block,
         keys' = [keys EXCEPT ![session_key] = [keys[session_key] EXCEPT !.iv = n]]
  PROVE  /\ keys' \in [KeyObjs -> Keys \cup {None}]
         /\ KeysShaped'
         /\ keys'[session_key] # None /\ Sound(keys'[session_key])
         /\ keys'[session_key].type = keys[session_key].type
         /\ keys'[session_key].block = keys[session_key].block
         /\ keys'[session_key].iv = n
<1> DEFINE key == keys[session_key]
           new == [key EXCEPT !.iv = n]
<1>1. /\ session_key \in KeyObjs
      /\ key \in Keys /\ KeyShape(key)
      /\ TypeOK /\ KeysShaped
  BY DEF IInv, TypeOK, InSession, KeysShaped
<1>2. Sound(key) /\ n <= key.block
  OBVIOUS
<1> HIDE DEF key
<1>3. new \in Keys /\ Sound(new) /\ KeyShape(new) /\ new.type = key.type
        /\ new.block = key.block /\ new.iv = n
  BY <1>1, <1>2, IvKeeps
<1>4. keys' = [keys EXCEPT ![session_key] = new]
  BY DEF key
<1> HIDE DEF new
<1>5. /\ keys' \in [KeyObjs -> Keys \cup {None}]
      /\ KeysShaped'
      /\ keys'[session_key] = new /\ keys'[session_key] # None
  BY <1>1, <1>3, <1>4, KeyPut
<1> QED
  BY <1>3, <1>5 DEF key

LEMMA SendKeeps ==
  ASSUME IInv, NEW msg \in Messages, Send(msg)
  PROVE  IInv' /\ (ShortIv' => ShortIv)
<1> DEFINE key == keys[session_key]
           new == [at |-> "sent", rx |-> msg.rx, ends |-> msg.ends, new |-> msg.new]
           sent == FrameOf(key, msg)
<1>1. /\ session_key \in KeyObjs /\ session_key # None
      /\ key \in Keys /\ KeyShape(key) /\ Sound(key)
      /\ is_authenticated
      /\ session_key' = session_key /\ card' = card
      /\ is_authenticated' = is_authenticated
      /\ Sensible(msg)
      /\ TypeOK /\ KeysShaped /\ InSession
  BY SendEffect DEF IInv
<1>2. new \in Commands /\ new.at = "sent"
  BY <1>1 DEF Sensible, MessageRecords, Commands
<1>3. sent \in Frames /\ (sent.mac # {} => sent.mac = MacSent(key.block))
  BY <1>1, SoundBlock, FrameTyped
<1>4. key.block \in Nat
  BY <1>1 DEF Keys
<1>5. ASSUME keys' = [keys EXCEPT ![session_key] = [key EXCEPT !.iv = key.block]],
             call' = new, frame' = sent, raised' = None
      PROVE  IInv' /\ ~ShortIv'
  <2>1. /\ keys' \in [KeyObjs -> Keys \cup {None}]
        /\ KeysShaped'
        /\ keys'[session_key] # None /\ Sound(keys'[session_key])
        /\ keys'[session_key].type = key.type
        /\ keys'[session_key].block = key.block
        /\ keys'[session_key].iv = key.block
    <3>1. PICK n \in Nat : n = key.block
      BY <1>4
    <3>2. keys' = [keys EXCEPT ![session_key] = [keys[session_key] EXCEPT !.iv = n]]
      BY <1>5, <3>1
    <3>3. n <= keys[session_key].block
      BY <1>4, <3>1
    <3> QED
      BY <1>1, <3>1, <3>2, <3>3, IvReplaced
  <2> HIDE DEF key, new, sent
  <2>2. TypeOK'
    BY <1>1, <1>2, <1>3, <1>5, <2>1 DEF TypeOK
  <2>3. InSession'
    BY <1>1, <2>1 DEF InSession, key
  <2>4. InHandshake' /\ InCommand' /\ Quiet'
    BY <1>1, <1>2, <1>5 DEF InHandshake, InCommand, Quiet
  <2>5. RefusedInTime'
    BY <1>5, NoneAssumption DEF RefusedInTime
  <2>6. ~ShortIv'
    BY <1>1, <1>4, <2>1 DEF ShortIv
  <2> QED
    BY <2>1, <2>2, <2>3, <2>4, <2>5, <2>6 DEF IInv
<1>6. ASSUME ShortIv, RaiseWith("cipher"), keys' = keys
      PROVE  IInv'
  <2>1. call' = None /\ frame' = None /\ raised' = "cipher"
    BY <1>6 DEF RaiseWith
  <2>2. TypeOK' /\ KeysShaped' /\ InSession'
    BY <1>1, <1>6, <2>1 DEF TypeOK, KeysShaped, InSession
  <2>3. InHandshake' /\ InCommand' /\ Quiet'
    BY <2>1 DEF InHandshake, InCommand, Quiet
  <2>4. RefusedInTime'
    BY <1>1, <1>6 DEF RefusedInTime, ShortIv
  <2> QED
    BY <2>2, <2>3, <2>4 DEF IInv
<1> QED
  BY <1>5, <1>6, SendEffect

LEMMA CommandSession ==
  ASSUME IInv, call # None, call.at = "sent"
  PROVE  /\ call \in Commands
         /\ is_authenticated /\ session_key \in KeyObjs /\ session_key # None
         /\ keys[session_key] \in Keys
         /\ Sound(keys[session_key]) /\ KeyShape(keys[session_key])
         /\ keys[session_key].type = card.kind.type
         /\ ShortIv <=> keys[session_key].iv # keys[session_key].block
<1> DEFINE key == keys[session_key]
<1>1. /\ call \in Commands
      /\ is_authenticated /\ session_key \in KeyObjs /\ session_key # None
      /\ key \in Keys /\ Sound(key) /\ KeyShape(key)
      /\ key.type = card.kind.type
  BY DEF IInv, TypeOK, InCommand, InSession, KeysShaped, Commands, Handshakes
<1>2. key.iv \in Nat /\ key.block \in Nat /\ key.iv <= key.block
  BY <1>1 DEF Keys, Sound
<1>3. ShortIv <=> key.iv < key.block
  BY <1>1 DEF ShortIv
<1> HIDE DEF key
<1> QED
  BY <1>1, <1>2, <1>3 DEF key

\* Whatever is made of an answer, the method ends; the IV it may leave is a block or
\* less.
LEMMA AnswerKeeps ==
  ASSUME IInv, call # None, call.at = "sent",
         NEW n \in Nat, n <= keys[session_key].block,
         \/ keys' = keys
         \/ keys' = [keys EXCEPT ![session_key] = [keys[session_key] EXCEPT !.iv = n]],
         \/ Finish
         \/ Refuse("refused")
         \/ Refuse("cipher") /\ ShortIv /\ keys' = keys
  PROVE  /\ IInv'
         /\ ShortIv' => ShortIv \/ n < keys[session_key].block
<1> DEFINE key == keys[session_key]
<1>1. /\ call \in Commands
      /\ session_key \in KeyObjs /\ session_key # None
      /\ key \in Keys /\ key # None /\ Sound(key)
      /\ key.type = card.kind.type
      /\ TypeOK /\ KeysShaped /\ InSession
  BY CommandSession, NoneAssumption DEF IInv
<1>2. /\ keys' \in [KeyObjs -> Keys \cup {None}]
      /\ KeysShaped'
      /\ keys'[session_key] # None /\ Sound(keys'[session_key])
      /\ keys'[session_key].type = key.type
      /\ keys'[session_key].block = key.block
      /\ keys'[session_key] = key \/ keys'[session_key].iv = n
  BY <1>1, IvReplaced DEF TypeOK, KeysShaped
<1>3. key.block \in Nat
  BY <1>1 DEF Keys
<1> HIDE DEF key
<1>4. session_key' = session_key => (ShortIv' => ShortIv \/ n < key.block)
  BY <1>1, <1>2, <1>3 DEF ShortIv, key
<1>5. CASE Finish
  <2>1. /\ call' = None /\ frame' = None /\ raised' = None
        /\ is_authenticated' = (is_authenticated /\ ~call.ends)
        /\ card' = [card EXCEPT !.session = card.session /\ ~call.ends]
        /\ session_key' = IF call.ends /\ call.new > 0 THEN None ELSE session_key
    BY <1>5 DEF Finish
  <2>2. call.ends \in BOOLEAN
    BY <1>1 DEF Commands
  <2>3. /\ card' \in [kind : CardKinds, session : BOOLEAN]
        /\ card'.kind = card.kind
    BY <1>1, <2>1 DEF TypeOK
  <2>4. TypeOK'
    BY <1>1, <1>2, <2>1, <2>2, <2>3 DEF TypeOK
  <2>5. InSession'
    BY <1>1, <1>2, <2>1, <2>3 DEF InSession
  <2>6. /\ InHandshake' /\ InCommand' /\ Quiet'
        /\ RefusedInTime'
    BY <2>1, NoneAssumption
    DEF InHandshake, InCommand, Quiet, RefusedInTime
  <2>7. ShortIv' => ShortIv \/ n < key.block
    BY <1>4, <2>1 DEF ShortIv
  <2> QED
    BY <1>2, <2>4, <2>5, <2>6, <2>7 DEF IInv, key
<1>6. CASE Refuse("refused") \/ (Refuse("cipher") /\ ShortIv /\ keys' = keys)
  <2>1. /\ call' = None /\ frame' = None
        /\ raised' = "refused" \/ (raised' = "cipher" /\ ShortIv /\ keys' = keys)
        /\ UNCHANGED <<is_authenticated, session_key, card>>
    BY <1>6 DEF Refuse, RaiseWith
  <2>2. TypeOK'
    BY <1>1, <1>2, <2>1 DEF TypeOK
  <2>3. InSession'
    BY <1>1, <1>2, <2>1 DEF InSession, key
  <2>4. InHandshake' /\ InCommand' /\ Quiet'
    BY <2>1 DEF InHandshake, InCommand, Quiet
  <2>5. RefusedInTime'
    BY <2>1 DEF RefusedInTime, ShortIv
  <2> QED
    BY <1>2, <1>4, <2>1, <2>2, <2>3, <2>4, <2>5 DEF IInv, key
<1> QED
  BY <1>5, <1>6

LEMMA ReceivePlainKeeps ==
  ASSUME IInv, ReceivePlain
  PROVE  IInv' /\ (ShortIv' => ShortIv)
<1>1. call # None /\ call.at = "sent" /\ Finish /\ keys' = keys
  BY DEF ReceivePlain
<1>2. keys[session_key].block \in Nat
  BY <1>1, CommandSession DEF Keys
<1>3. PICK n \in Nat : n = keys[session_key].block
  BY <1>2
<1> QED
  BY <1>1, <1>2, <1>3, AnswerKeeps

LEMMA ReceiveMacKeeps ==
  ASSUME IInv, NEW len \in Data, ReceiveMac(len)
  PROVE  IInv' /\ (ShortIv' => ShortIv)
<1> DEFINE key == keys[session_key]
<1>1. call # None /\ call.at = "sent"
  BY DEF ReceiveMac
<1>2. /\ key \in Keys /\ Sound(key)
      /\ ShortIv <=> key.iv # key.block
      /\ key.block \in Nat
  BY <1>1, CommandSession DEF Keys
<1>3. len + 1 \in Nat \ {0}
  BY SizesAssumption
<1>4. IF CanMac(key, len + 1)
      THEN /\ keys' = [keys EXCEPT ![session_key] = AfterMac(key, len + 1)]
           /\ Finish \/ Refuse("refused")
      ELSE Refuse("cipher") /\ UNCHANGED keys
  BY DEF ReceiveMac
<1> HIDE DEF key
<1>5. /\ CanMac(key, len + 1) <=> key.iv = key.block
      /\ AfterMac(key, len + 1) = [key EXCEPT !.iv = key.block]
  BY <1>2, <1>3, MacFacts
<1>6. PICK n \in Nat : n = key.block
  BY <1>2
<1>7. \/ /\ keys' = [keys EXCEPT ![session_key] = [key EXCEPT !.iv = n]]
         /\ Finish \/ Refuse("refused")
      \/ Refuse("cipher") /\ ShortIv /\ keys' = keys
  BY <1>2, <1>4, <1>5, <1>6
<1>8. n <= keys[session_key].block /\ ~(n < keys[session_key].block)
  BY <1>2, <1>6 DEF key
<1> QED
  BY <1>1, <1>7, <1>8, AnswerKeeps DEF key

\* Only an answer that the card did not encrypt is shorter than a block.
LEMMA AnswerLengths ==
  ASSUME IInv, call # None, call.at = "sent", NEW len \in EncryptedAnswers
  PROVE  len \in Nat /\ (len < keys[session_key].block => len \in Stray)
<1> DEFINE b == CipherBlock(card.kind.type)
<1>1. keys[session_key].block = b /\ b \in Blocks
  BY CommandSession, SoundBlock DEF Sound
<1> HIDE DEF b
<1>2. CASE len \in Stray
  BY <1>2, SizesAssumption
<1>3. CASE \E n \in Data : len = RoundUp(n + 4, b)
  <2>1. PICK n \in Data : len = RoundUp(n + 4, b)
    BY <1>3
  <2>2. n + 4 \in Nat /\ n + 4 > 0
    BY SizesAssumption
  <2>3. len \in Nat /\ len >= b
    BY <1>1, <2>1, <2>2, RoundUpFacts
  <2>4. b \in Nat
    BY <1>1 DEF Blocks
  <2> QED
    BY <1>1, <2>3, <2>4
<1> QED
  BY <1>2, <1>3 DEF EncryptedAnswers, b

LEMMA ReceiveEncryptedKeeps ==
  ASSUME IInv, NEW len \in EncryptedAnswers, ReceiveEncrypted(len)
  PROVE  /\ IInv'
         /\ ShortIv' => ShortIv \/ (len \in Stray /\ len < keys[session_key].block)
<1> DEFINE key == keys[session_key]
<1>1. call # None /\ call.at = "sent"
  BY DEF ReceiveEncrypted
<1>2. /\ key \in Keys /\ Sound(key)
      /\ ShortIv <=> key.iv # key.block
  BY <1>1, CommandSession
<1>3. len \in Nat /\ (len < key.block => len \in Stray)
  BY <1>1, AnswerLengths
<1>4. IF CanCrypt(key, AddPadding(len))
      THEN /\ keys' = [keys EXCEPT ![session_key] = AfterDecrypt(key, len)]
           /\ \/ AddPadding(len) = len /\ Finish
              \/ Refuse("refused")
      ELSE Refuse("cipher") /\ UNCHANGED keys
  BY DEF ReceiveEncrypted
<1> HIDE DEF key
<1>5. /\ CanCrypt(key, AddPadding(len)) <=> key.iv = key.block
      /\ AfterDecrypt(key, len) = [key EXCEPT !.iv = Smaller(key.block, len)]
      /\ Smaller(key.block, len) \in Nat
      /\ Smaller(key.block, len) <= key.block
      /\ Smaller(key.block, len) < key.block => len < key.block
  BY <1>2, <1>3, DecryptFacts
<1>6. PICK n \in Nat : n = Smaller(key.block, len)
  BY <1>5
<1>7. \/ /\ keys' = [keys EXCEPT ![session_key] = [key EXCEPT !.iv = n]]
         /\ Finish \/ Refuse("refused")
      \/ Refuse("cipher") /\ ShortIv /\ keys' = keys
  BY <1>2, <1>4, <1>5, <1>6
<1>8. n <= keys[session_key].block
  BY <1>5, <1>6 DEF key
<1>9. IInv' /\ (ShortIv' => ShortIv \/ n < key.block)
  BY <1>1, <1>7, <1>8, AnswerKeeps DEF key
<1> QED
  BY <1>3, <1>5, <1>6, <1>9 DEF key

LEMMA NextKeeps ==
  ASSUME IInv, [Next]_vars
  PROVE  /\ IInv'
         /\ ~ShortIv /\ ShortIv' =>
              \E len \in Stray : len < keys[session_key].block /\ ReceiveEncrypted(len)
<1>1. CASE \E o \in KeyObjs, kind \in Kinds : Construct(o, kind)
  BY <1>1, ConstructKeeps
<1>2. CASE \E o \in KeyObjs, kind \in CardKinds : Authenticate(o, kind)
  BY <1>2, AuthenticateKeeps
<1>3. CASE \E msg \in Messages : Send(msg)
  BY <1>3, SendKeeps
<1>4. CASE \E rndA \in Challenges \cup {8, 16} : ReceiveChallenge(rndA)
  <2>1. PICK rndA \in Nat : ReceiveChallenge(rndA)
    BY <1>4, SizesAssumption
  <2> QED
    BY <2>1, ReceiveChallengeKeeps
<1>5. CASE ReceiveProof
  BY <1>5, ReceiveProofKeeps
<1>6. CASE ReceivePlain
  BY <1>6, ReceivePlainKeeps
<1>7. CASE \E n \in Data : ReceiveMac(n)
  BY <1>7, ReceiveMacKeeps
<1>8. CASE \E len \in EncryptedAnswers : ReceiveEncrypted(len)
  BY <1>8, ReceiveEncryptedKeeps
<1>9. CASE CardProve
  BY <1>9, CardProveKeeps
<1>10. CASE Fail
  BY <1>10, FailKeeps
<1>11. CASE UNCHANGED vars
  <2>1. ShortIv' <=> ShortIv
    BY <1>11 DEF vars, ShortIv
  <2>2. UNCHANGED <<keys, is_authenticated, session_key, call, frame, card, raised>>
    BY <1>11 DEF vars
  <2>3. TypeOK' /\ KeysShaped'
    BY <2>2 DEF IInv, TypeOK, KeysShaped
  <2>4. InHandshake' /\ InCommand' /\ InSession' /\ Quiet'
    BY <2>2 DEF IInv, InHandshake, ProofAccepted, InCommand, InSession, Quiet
  <2>5. RefusedInTime'
    BY <2>1, <2>2 DEF IInv, RefusedInTime
  <2> QED
    BY <2>1, <2>3, <2>4, <2>5 DEF IInv
<1> QED
  BY <1>1, <1>2, <1>3, <1>4, <1>5, <1>6, <1>7, <1>8, <1>9, <1>10, <1>11
  DEF Next, Caller, Host

\* The invariant holds for every set of key objects, whatever the lengths of key data,
\* challenges, answers and chunks.
THEOREM InvCorrect == Spec => []IInv
<1>1. IInv /\ [Next]_vars => IInv'
  BY NextKeeps
<1> QED
  BY <1>1, InitEstablishes, PTL DEF Spec

-----------------------------------------------------------------------------
(* What follows for the session                                            *)

\* Every attribute keeps the shape it has: among others no frame carries more of a MAC
\* than its block has.
THEOREM TypeCorrect == Spec => []TypeOK
<1>1. IInv => TypeOK
  BY DEF IInv
<1> QED
  BY <1>1, InvCorrect, PTL

\* In a session the key, its subkeys and its IV are what the cipher takes, however often
\* the object was authenticated with and whatever keys it was constructed from.
THEOREM SessionFitsCorrect == Spec => []SessionFits
<1>1. IInv => SessionFits
  BY SoundFits DEF IInv, InSession, SessionFits
<1> QED
  BY <1>1, InvCorrect, PTL

\* The cipher refuses a key or a challenge before the card begins its session.
THEOREM RefusedInTimeCorrect == Spec => []RefusedInTime
<1>1. IInv => RefusedInTime
  BY DEF IInv
<1> QED
  BY <1>1, InvCorrect, PTL

\* An IV of less than a block comes from nothing but an answer of less than a block, for
\* every history of the session.
THEOREM OnlyShortAnswersCorrect == Spec => OnlyShortAnswersShortenIv
<1>1. IInv /\ [Next]_vars =>
        [~ShortIv /\ ShortIv' =>
           \E len \in Stray : len < keys[session_key].block /\ ReceiveEncrypted(len)]_vars
  BY NextKeeps
<1> QED
  BY <1>1, InvCorrect, PTL DEF Spec, OnlyShortAnswersShortenIv

\* The cipher takes a DES or AES-128 key of the card's kind in both halves of the
\* handshake, whatever its object was used for before and whatever RndA is.
THEOREM TestedKeysCorrect == Spec => TestedKeysWork
<1> DEFINE Tested == /\ call # None
                     /\ call.at \in {"challenge", "proof"}
                     /\ card.kind \in TestedKinds
                     /\ IsKind(keys[call.key], card.kind)
<1>1. ASSUME IInv, [Next]_vars, Tested
      PROVE  raised' # "cipher"
  <2>1. raised = None /\ None # "cipher"
    BY <1>1, NoneAssumption DEF IInv, Quiet
  <2>2. CASE \E rndA \in Challenges \cup {8, 16} : ReceiveChallenge(rndA)
    <3>1. PICK rndA \in Nat : ReceiveChallenge(rndA)
      BY <2>2, SizesAssumption
    <3>2. \/ RaiseWith("refused") \/ RaiseWith("length")
          \/ raised' = raised
      BY <1>1, <3>1, ChallengeEffect
    <3> QED
      BY <2>1, <3>2 DEF RaiseWith
  <2>3. CASE ReceiveProof
    BY <1>1, <2>1, <2>3, ReceiveProofKeeps
  <2>4. CASE CardProve \/ UNCHANGED vars
    BY <2>1, <2>4 DEF CardProve, vars
  <2>5. CASE Fail
    BY <2>5 DEF Fail, RaiseWith
  <2>6. CASE \/ Caller
             \/ ReceivePlain
             \/ \E n \in Data : ReceiveMac(n)
             \/ \E len \in EncryptedAnswers : ReceiveEncrypted(len)
    BY <1>1, <2>6
    DEF Caller, Construct, Authenticate, Send, ReceivePlain, ReceiveMac, ReceiveEncrypted
  <2> QED
    BY <1>1, <2>2, <2>3, <2>4, <2>5, <2>6 DEF Next, Host
<1>2. IInv /\ [Next]_vars => [Tested => raised' # "cipher"]_vars
  BY <1>1
<1> QED
  BY <1>2, InvCorrect, PTL DEF Spec, TestedKeysWork

-----------------------------------------------------------------------------
(* Lengths of key data                                                     *)

\* The lengths of key data an object can come to have: what it was constructed with, a
\* size its type sets, or a session key.
KnownLengths == {kind.bytes : kind \in Kinds} \cup {8, 16, 24}

BytesKnown == \A o \in KeyObjs : keys[o] # None => keys[o].bytes \in KnownLengths

LEMMA ShapeKnown ==
  ASSUME NEW key \in Keys, KeyShape(key)
  PROVE  key.size \in KnownLengths
  BY DEF Keys, KeyTypes, KeyShape, KnownLengths

\* An answer changes nothing of the key but its IV.
LEMMA AnswerReplaces ==
  ASSUME IInv,
         \/ ReceivePlain
         \/ \E n \in Data : ReceiveMac(n)
         \/ \E len \in EncryptedAnswers : ReceiveEncrypted(len)
  PROVE  /\ frame' = None
         /\ \/ keys' = keys
            \/ /\ session_key \in KeyObjs
               /\ keys[session_key] \in Keys /\ keys[session_key] # None
               /\ \E n \in Nat :
                    keys' = [keys EXCEPT ![session_key] = [keys[session_key] EXCEPT !.iv = n]]
<1> DEFINE key == keys[session_key]
<1>1. call # None /\ call.at = "sent"
  BY DEF ReceivePlain, ReceiveMac, ReceiveEncrypted
<1>2. /\ session_key \in KeyObjs
      /\ key \in Keys /\ key # None /\ Sound(key)
      /\ key.block \in Nat
  BY <1>1, CommandSession, NoneAssumption DEF Keys
<1>3. frame' = None
  BY DEF ReceivePlain, ReceiveMac, ReceiveEncrypted, Finish, Refuse, RaiseWith
<1>4. CASE ReceivePlain
  BY <1>3, <1>4 DEF ReceivePlain
<1>5. CASE \E n \in Data : ReceiveMac(n)
  <2>1. PICK n \in Data : ReceiveMac(n)
    BY <1>5
  <2>2. keys' = keys \/ keys' = [keys EXCEPT ![session_key] = AfterMac(key, n + 1)]
    BY <2>1 DEF ReceiveMac, Refuse
  <2>3. n + 1 \in Nat \ {0}
    BY SizesAssumption
  <2> HIDE DEF key
  <2>4. AfterMac(key, n + 1) = [key EXCEPT !.iv = key.block]
    BY <1>2, <2>3, MacFacts
  <2>5. PICK m \in Nat : m = key.block
    BY <1>2
  <2> QED
    BY <1>2, <1>3, <2>2, <2>4, <2>5 DEF key
<1>6. CASE \E len \in EncryptedAnswers : ReceiveEncrypted(len)
  <2>1. PICK len \in EncryptedAnswers : ReceiveEncrypted(len)
    BY <1>6
  <2>2. keys' = keys \/ keys' = [keys EXCEPT ![session_key] = AfterDecrypt(key, len)]
    BY <2>1 DEF ReceiveEncrypted, Refuse
  <2>3. len \in Nat
    BY <1>1, AnswerLengths
  <2> HIDE DEF key
  <2>4. /\ AfterDecrypt(key, len) = [key EXCEPT !.iv = Smaller(key.block, len)]
        /\ Smaller(key.block, len) \in Nat
    BY <1>2, <2>3, DecryptFacts
  <2>5. PICK m \in Nat : m = Smaller(key.block, len)
    BY <2>4
  <2> QED
    BY <1>2, <1>3, <2>2, <2>4, <2>5 DEF key
<1> QED
  BY <1>4, <1>5, <1>6

\* Each step leaves the objects alone or replaces one, by key data of a known length.
LEMMA StepReplaces ==
  ASSUME IInv, [Next]_vars
  PROVE  \/ keys' = keys
         \/ \E o \in KeyObjs, key \in Keys :
              /\ keys' = [keys EXCEPT ![o] = key]
              /\ \/ key.bytes \in KnownLengths
                 \/ keys[o] # None /\ key.bytes = keys[o].bytes
<1>1. CASE \E o \in KeyObjs, kind \in Kinds : Construct(o, kind)
  <2>1. PICK o \in KeyObjs, kind \in Kinds : Construct(o, kind)
    BY <1>1
  <2> DEFINE s == CipherInit(New(kind))
  <2>2. CASE InitAccepts(New(kind))
    <3>1. kind \in KeyKinds
      BY SizesAssumption
    <3>2. s \in Keys /\ KeyShape(s) /\ s.bytes \in {kind.bytes, s.size}
      BY <2>2, <3>1, NewShaped
    <3>3. keys' = [keys EXCEPT ![o] = s]
      BY <2>1, <2>2 DEF Construct
    <3> HIDE DEF s
    <3>4. s.bytes \in KnownLengths
      BY <3>2, ShapeKnown DEF KnownLengths
    <3> QED
      BY <3>2, <3>3, <3>4
  <2>3. CASE ~InitAccepts(New(kind))
    BY <2>1, <2>3 DEF Construct
  <2> QED
    BY <2>2, <2>3
<1>2. CASE \E msg \in Messages : Send(msg)
  <2> DEFINE key == keys[session_key]
             s == [key EXCEPT !.iv = key.block]
  <2>1. /\ session_key \in KeyObjs /\ key \in Keys /\ key # None
        /\ keys' = keys \/ keys' = [keys EXCEPT ![session_key] = s]
    BY <1>2, SendEffect, NoneAssumption
  <2>2. key.block \in Nat
    BY <2>1 DEF Keys
  <2> HIDE DEF key
  <2>3. s \in Keys /\ s.bytes = key.bytes
    BY <2>1, <2>2, IvFields
  <2> HIDE DEF s
  <2> QED
    BY <2>1, <2>3 DEF key
<1>3. CASE \E rndA \in Challenges \cup {8, 16} : ReceiveChallenge(rndA)
  <2>1. PICK rndA \in Nat : ReceiveChallenge(rndA)
    BY <1>3, SizesAssumption
  <2> DEFINE o == call.key
  <2>2. o \in KeyObjs /\ keys[o] \in Keys /\ keys[o] # None
    BY <2>1, ChallengeEffect, NoneAssumption
  <2>3. \/ keys' = keys
        \/ \E key \in Keys :
             /\ keys' = [keys EXCEPT ![o] = key]
             /\ KeyShape(key)
             /\ key.bytes \in {keys[o].bytes, key.size}
    BY <2>1, ChallengeEffect
  <2> HIDE DEF o
  <2> QED
    BY <2>2, <2>3, ShapeKnown
<1>4. CASE ReceiveProof
  <2> DEFINE o == call.key
  <2>1. PICK key \in Keys :
          keys' = [keys EXCEPT ![o] = key] /\ Sound(key)
    BY <1>4, ProofEffect
  <2>2. o \in KeyObjs
    BY <1>4, ProofEffect
  <2> HIDE DEF o
  <2>3. key.bytes \in KnownLengths
    BY <2>1 DEF Keys, KeyTypes, Sound, KeyLengths, KnownLengths
  <2> QED
    BY <2>1, <2>2, <2>3
<1>5. CASE \/ ReceivePlain
           \/ \E n \in Data : ReceiveMac(n)
           \/ \E len \in EncryptedAnswers : ReceiveEncrypted(len)
  <2> DEFINE key == keys[session_key]
  <2>1. CASE keys' = keys
    BY <2>1
  <2>2. CASE /\ session_key \in KeyObjs /\ key \in Keys /\ key # None
             /\ \E n \in Nat : keys' = [keys EXCEPT ![session_key] = [key EXCEPT !.iv = n]]
    <3>1. PICK n \in Nat : keys' = [keys EXCEPT ![session_key] = [key EXCEPT !.iv = n]]
      BY <2>2
    <3> HIDE DEF key
    <3> DEFINE s == [key EXCEPT !.iv = n]
    <3>2. s \in Keys /\ s.bytes = key.bytes
      BY <2>2, IvFields
    <3> HIDE DEF s
    <3> QED
      BY <2>2, <3>1, <3>2 DEF key, s
  <2> QED
    BY <1>5, <2>1, <2>2, AnswerReplaces
<1>6. CASE \/ \E o \in KeyObjs, kind \in CardKinds : Authenticate(o, kind)
           \/ CardProve \/ Fail \/ UNCHANGED vars
  BY <1>6 DEF Authenticate, CardProve, Fail, vars
<1> QED
  BY <1>1, <1>2, <1>3, <1>4, <1>5, <1>6 DEF Next, Caller, Host

LEMMA BytesKnownInductive == IInv /\ BytesKnown /\ [Next]_vars => BytesKnown'
<1> SUFFICES ASSUME IInv, BytesKnown, [Next]_vars, NEW p \in KeyObjs, keys'[p] # None
             PROVE  keys'[p].bytes \in KnownLengths
  BY DEF BytesKnown
<1>1. CASE keys' = keys
  BY <1>1 DEF BytesKnown
<1>2. CASE \E o \in KeyObjs, key \in Keys :
             /\ keys' = [keys EXCEPT ![o] = key]
             /\ \/ key.bytes \in KnownLengths
                \/ keys[o] # None /\ key.bytes = keys[o].bytes
  <2>1. PICK o \in KeyObjs, key \in Keys :
          /\ keys' = [keys EXCEPT ![o] = key]
          /\ \/ key.bytes \in KnownLengths
             \/ keys[o] # None /\ key.bytes = keys[o].bytes
    BY <1>2
  <2>2. keys'[p] = IF p = o THEN key ELSE keys[p]
    BY <2>1 DEF IInv, TypeOK
  <2> QED
    BY <2>1, <2>2 DEF BytesKnown
<1> QED
  BY <1>1, <1>2, StepReplaces

LEMMA BytesKnownCorrect == Spec => []BytesKnown
<1>1. Init => BytesKnown
  BY DEF Init, BytesKnown
<1> QED
  BY <1>1, BytesKnownInductive, InvCorrect, PTL DEF Spec

\* Key data is at most 16 bytes, or the 24 of the longest key type.
KeyDataWhole == \A kind \in Kinds : kind.bytes <= 16 \/ kind.bytes = 24

\* change_key sends every byte of the new key, whichever objects are old and new key and
\* whatever either was used for, unless 24 bytes replace eight: xor_lists ends with the
\* shorter list and the old key is taken twice at most.
THEOREM WholeKeySentCorrect ==
  ASSUME KeyDataWhole
  PROVE  Spec => []WholeKeySent
<1>1. IInv /\ BytesKnown => WholeKeySent
  <2> SUFFICES ASSUME IInv, BytesKnown,
                      NEW c \in KeyObjs, keys[c] # None,
                      NEW n \in KeyObjs, keys[n] # None,
                      NEW same \in BOOLEAN,
                      keys[c].bytes \in KeyLengths(keys[c].type),
                      ChangeKey(keys[c], keys[n], same).carried
                        # ChangeKey(keys[c], keys[n], same).new
               PROVE  ~same /\ keys[n].bytes = 24 /\ keys[c].bytes = 8
    BY DEF WholeKeySent
  <2> DEFINE old == keys[c].bytes
             new == keys[n].bytes
  <2>1. keys[c] \in Keys /\ keys[n] \in Keys
    BY DEF IInv, TypeOK
  <2>2. old \in {8, 16, 24}
    BY <2>1 DEF Keys, KeyTypes, KeyLengths
  <2>3. new \in Nat /\ (new <= 16 \/ new = 24)
    BY <2>1 DEF BytesKnown, KnownLengths, KeyDataWhole, Keys
  <2>4. (IF same THEN new ELSE XorBytes(new, old)) # new
    BY DEF ChangeKey
  <2> HIDE DEF old, new
  <2>5. ~same /\ XorBytes(new, old) # new
    BY <2>4
  <2>6. new = 24 /\ old = 8
    BY <2>2, <2>3, <2>5 DEF XorBytes, Smaller
  <2> QED
    BY <2>5, <2>6 DEF old, new
<1> QED
  BY <1>1, InvCorrect, BytesKnownCorrect, PTL

-----------------------------------------------------------------------------
(* Lengths of frames                                                       *)

\* The longest key data change_key can send in a frame, and the longest RndA the handshake.
KeyDataShort == \A kind \in Kinds : kind.bytes <= 39
ChallengesShort == \A n \in Challenges : n <= 43

\* A message that, with a MAC or with CRC and padding, is no longer than a frame.
Short(msg) ==
  /\ msg.len <= 52
  /\ msg.offset <= 8
  /\ Protected(msg) <= 48

\* Every message but a long write with a MAC or encrypted is short.
LEMMA MessagesShort ==
  ASSUME KeyDataShort, TypeOK, BytesKnown, NEW msg \in Messages,
         \A n \in Writes, tx \in {"CMAC", "ENCRYPTED"} :
           n > 44 => msg # WriteFileData(n, tx)
  PROVE  Short(msg) \/ (msg.tx = "PLAIN" /\ msg.len <= MaxFrame)
<1> USE DEF Modes
<1>1. CASE msg \in Plain
  <2>1. \/ \E len \in 1 .. 11, rx \in Modes : msg = Message(len, "PLAIN", rx)
        \/ msg = [Message(4, "PLAIN", "PLAIN") EXCEPT !.ends = TRUE]
    BY <1>1 DEF Plain
  <2>2. msg.len \in 1 .. 11 /\ msg.offset = 1 /\ msg.crc = TRUE
    BY <2>1 DEF Message
  <2> QED
    BY <2>2 DEF Short, Protected
<1>2. CASE msg \in {DeleteFile, ChangeKeySettings}
  <2>1. msg.len = 2 /\ msg.offset = 1 /\ msg.crc = TRUE
    BY <1>2 DEF DeleteFile, ChangeKeySettings, Message
  <2> QED
    BY <2>1 DEF Short, Protected
<1>3. CASE \E c, n \in {o \in KeyObjs : keys[o] # None}, same \in BOOLEAN :
             msg = ChangeKey(keys[c], keys[n], same)
  <2>1. PICK c \in KeyObjs, n \in KeyObjs, same \in BOOLEAN :
          /\ keys[c] # None /\ keys[n] # None
          /\ msg = ChangeKey(keys[c], keys[n], same)
    BY <1>3
  <2>2. /\ keys[c] \in Keys /\ keys[n] \in Keys
        /\ keys[n].bytes \in Nat /\ keys[n].bytes <= 39
    BY <2>1 DEF TypeOK, BytesKnown, KnownLengths, KeyDataShort, Keys
  <2>3. /\ Sensible(msg) /\ msg.carried <= keys[n].bytes
        /\ Protected(msg) <= msg.carried + 9 /\ msg.offset = 2
    BY <2>1, <2>2, ChangeKeySensible
  <2>4. /\ msg.crc = FALSE /\ msg.tx = "ENCRYPTED"
        /\ msg.len \in Nat /\ msg.carried \in Nat
    BY <2>1, <2>3 DEF ChangeKey, Sensible, MessageRecords
  <2>5. Protected(msg) = msg.len - msg.offset
    BY <2>3, <2>4 DEF Protected
  <2> QED
    BY <2>2, <2>3, <2>4, <2>5 DEF Short
<1>4. CASE \E n \in {w \in Writes : w <= MaxFrame - 1 - 7}, tx \in Modes :
             msg = WriteFileData(n, tx)
  <2>1. PICK n \in Writes, tx \in Modes : n <= MaxFrame - 1 - 7 /\ msg = WriteFileData(n, tx)
    BY <1>4
  <2>2. 8 + n \in Nat /\ n \in Nat /\ n <= 52
    BY <2>1, SizesAssumption DEF MaxFrame
  <2>3. msg = [Message(8 + n, tx, "CMAC") EXCEPT !.offset = 8]
    BY <2>1 DEF WriteFileData
  <2>4. msg.len = 8 + n /\ msg.offset = 8 /\ msg.crc = TRUE /\ msg.tx = tx
    BY <2>3 DEF Message
  <2>5. CASE tx = "PLAIN"
    BY <2>2, <2>4, <2>5 DEF MaxFrame
  <2>6. CASE tx # "PLAIN"
    <3>1. tx \in {"CMAC", "ENCRYPTED"}
      BY <2>6
    <3>2. n <= 44
      BY <2>1, <2>2, <3>1
    <3> QED
      BY <2>2, <2>4, <3>2 DEF Short, Protected
  <2> QED
    BY <2>5, <2>6
<1>5. CASE \E n \in {o \in KeyObjs : keys[o] # None} : msg = ChangeDefaultKey(keys[n])
  <2>1. PICK n \in KeyObjs : keys[n] # None /\ msg = ChangeDefaultKey(keys[n])
    BY <1>5
  <2> DEFINE len == 2 + (IF keys[n].bytes > 24 THEN keys[n].bytes ELSE 24) + 1
  <2>2. keys[n].bytes \in Nat /\ keys[n].bytes <= 39
    BY <2>1 DEF TypeOK, BytesKnown, KnownLengths, KeyDataShort, Keys
  <2>3. len \in 27 .. 42
    BY <2>2
  <2>4. msg.len = len /\ msg.offset = 2 /\ msg.crc = TRUE
    BY <2>1 DEF ChangeDefaultKey, Message
  <2> HIDE DEF len
  <2> QED
    BY <2>3, <2>4 DEF Short, Protected
<1> QED
  BY <1>1, <1>2, <1>3, <1>4, <1>5 DEF Messages

LEMMA ShortFits ==
  ASSUME NEW key \in Keys, key.block \in Blocks, NEW msg, Sensible(msg), Short(msg)
  PROVE  FrameOf(key, msg).len <= MaxFrame
<1>1. /\ msg.len \in Nat /\ msg.offset \in Nat
      /\ msg.tx \in Modes
  BY DEF Sensible, MessageRecords
<1>2. CASE msg.tx = "PLAIN"
  BY <1>1, <1>2 DEF FrameOf, MaxFrame, Short
<1>3. CASE msg.tx = "CMAC"
  BY <1>1, <1>3 DEF FrameOf, MaxFrame, Short
<1>4. CASE msg.tx = "ENCRYPTED"
  <2> DEFINE p == Protected(msg)
  <2>1. p \in Nat /\ p <= 48
    BY <1>4 DEF Sensible, Short
  <2>2. Encrypted(key, msg) = RoundUp(p, key.block)
    BY DEF Encrypted, Protected
  <2>3. FrameOf(key, msg).len = msg.offset + Encrypted(key, msg)
    BY <1>4 DEF FrameOf
  <2> HIDE DEF p
  <2>4. RoundUp(p, key.block) \in Nat /\ RoundUp(p, key.block) <= 48
    <3>1. CASE key.block = 8
      BY <2>1, <3>1 DEF RoundUp
    <3>2. CASE key.block = 16
      BY <2>1, <3>2 DEF RoundUp
    <3> QED
      BY <3>1, <3>2 DEF Blocks
  <2> QED
    BY <1>1, <2>2, <2>3, <2>4 DEF Short, MaxFrame
<1> QED
  BY <1>1, <1>2, <1>3, <1>4 DEF Modes

\* A frame longer than the card takes is a write of more than 44 bytes with a MAC or
\* encrypted, whatever a session did before, as long as RndA and key data leave room for
\* what is added to them.
THEOREM OnlyWritesTooLongCorrect ==
  ASSUME KeyDataShort, ChallengesShort
  PROVE  Spec => OnlyWritesTooLong
<1> DEFINE LongWrite == \E n \in Writes, tx \in {"CMAC", "ENCRYPTED"} :
                          n > 44 /\ Send(WriteFileData(n, tx))
<1>1. IInv /\ BytesKnown /\ [Next]_vars =>
        [frame' # frame /\ ~FrameFits' => LongWrite]_vars
  <2> SUFFICES ASSUME IInv, BytesKnown, [Next]_vars, frame' # frame, frame' # None, ~LongWrite
               PROVE  frame'.len <= MaxFrame
    BY DEF FrameFits
  <2>1. CASE \E o \in KeyObjs, kind \in CardKinds : Authenticate(o, kind)
    BY <2>1 DEF Authenticate, MaxFrame
  <2>2. CASE \E msg \in Messages : Send(msg)
    <3>1. PICK msg \in Messages : Send(msg)
      BY <2>2
    <3> DEFINE key == keys[session_key]
    <3>2. /\ key \in Keys /\ Sound(key) /\ Sensible(msg)
          /\ frame' = FrameOf(key, msg) \/ frame' = None
      BY <3>1, SendEffect DEF RaiseWith
    <3> HIDE DEF key
    <3>3. ASSUME NEW n \in Writes, NEW tx \in {"CMAC", "ENCRYPTED"}, n > 44
          PROVE  msg # WriteFileData(n, tx)
      BY <3>1, <3>3
    <3> HIDE DEF LongWrite
    <3>4. Short(msg) \/ (msg.tx = "PLAIN" /\ msg.len <= MaxFrame)
      BY <3>3, MessagesShort DEF IInv
    <3>5. CASE Short(msg)
      BY <3>2, <3>5, SoundBlock, ShortFits
    <3>6. CASE msg.tx = "PLAIN" /\ msg.len <= MaxFrame
      BY <3>2, <3>6 DEF FrameOf
    <3> QED
      BY <3>4, <3>5, <3>6
  <2>3. CASE \E rndA \in Challenges \cup {8, 16} : ReceiveChallenge(rndA)
    <3>1. PICK rndA \in Challenges \cup {8, 16} : ReceiveChallenge(rndA)
      BY <2>3
    <3>2. rndA \in Nat /\ rndA <= 43
      BY SizesAssumption DEF ChallengesShort
    <3> DEFINE rndB == ChallengeLength(card.kind.type)
    <3>3. \/ frame' = None
          \/ frame' = [len |-> 1 + rndA + rndB, enc |-> rndA + rndB, mac |-> {}]
      BY <3>1, <3>2, ChallengeEffect DEF RaiseWith
    <3>4. rndB \in {8, 16}
      BY DEF ChallengeLength
    <3> HIDE DEF rndB
    <3>5. frame'.len = 1 + rndA + rndB
      BY <3>3
    <3> QED
      BY <3>2, <3>4, <3>5 DEF MaxFrame
  <2>4. CASE ReceiveProof
    BY <2>4, ProofEffect
  <2>5. CASE \/ ReceivePlain
             \/ \E n \in Data : ReceiveMac(n)
             \/ \E len \in EncryptedAnswers : ReceiveEncrypted(len)
    BY <2>5, AnswerReplaces
  <2>6. CASE \/ \E o \in KeyObjs, kind \in Kinds : Construct(o, kind)
             \/ CardProve \/ Fail \/ UNCHANGED vars
    BY <2>6 DEF Construct, CardProve, Fail, RaiseWith, vars
  <2> QED
    BY <2>1, <2>2, <2>3, <2>4, <2>5, <2>6 DEF Next, Caller, Host
<1> QED
  BY <1>1, InvCorrect, BytesKnownCorrect, PTL DEF Spec, OnlyWritesTooLong

=============================================================================
