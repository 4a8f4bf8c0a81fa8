-------------------------- MODULE EncryptedAnswer --------------------------
(***************************************************************************)
(* One encrypted answer, byte by byte: the card appends a CRC and pads to  *)
(* whole blocks, the ENCRYPTED branch of DESFire._postprocess              *)
(* (src/src/desfire/DESFire.py) pads what it received to whole blocks of   *)
(* sixteen bytes, decrypts it, strips zero bytes and looks for the CRC at  *)
(* the end of what is left.                                                *)
(*                                                                         *)
(* A byte of a CRC is zero or the name of its place and of what the CRC is *)
(* computed from: two byte lists with the same CRC, and a CRC of zeros     *)
(* only, are left out, and so is that the host's own padding decrypts to   *)
(* zeros only.  Each has a chance of at most one in 2^32.                  *)
(***************************************************************************)
EXTENDS Naturals, Sequences

CONSTANTS
  Zero,      \* the byte 0x00
  Mark,      \* the byte 0x80
  Others,    \* other bytes data is made of
  Noise,     \* what a damaged block decrypts to, but for zeros
  Block,     \* bytes of a cipher block
  HostBlock, \* bytes of a block in _add_padding, whatever the cipher
  CrcLen,    \* bytes of a CRC
  Datas,     \* what the card may answer
  Paddings,  \* how the card pads: "zeros", or "mark" for Mark followed by zeros
  None

Bytes == {Zero, Mark, Noise} \cup Others
Places == 1 .. CrcLen

\* The bytes of a CRC that are not zero.
CrcBytes == Seq(Bytes) \X Places

ASSUME AnswerAssumption ==
  /\ Block \in Nat \ {0}
  /\ HostBlock \in Nat \ {0}
  /\ CrcLen \in Nat \ {0}
  /\ Datas \subseteq Seq(Bytes)
  /\ Paddings \subseteq {"zeros", "mark"}
  /\ Zero \notin CrcBytes \cup {Mark, Noise} \cup Others
  /\ Bytes \cap (Seq(Bytes \cup CrcBytes) \X Places) = {}
  /\ None \notin Seq(Bytes \cup CrcBytes)

VARIABLES
  data,      \* what the card answers
  zeros,     \* which bytes of its CRC are zero
  padding,   \* how the card pads it
  plain,     \* what the answer decrypts to, None until the card sent it
  damaged,   \* whether a block was damaged, or decrypted with a wrong IV
  result     \* what _postprocess returned, "raised", or None

vars == <<data, zeros, padding, plain, damaged, result>>

\* The places of a CRC that may be zero.
SomeZeros == (SUBSET Places) \ {Places}

TypeOK ==
  /\ data \in Datas
  /\ zeros \in SomeZeros
  /\ padding \in Paddings
  /\ plain \in Seq(Bytes \cup CrcBytes) \cup {None}
  /\ damaged \in BOOLEAN
  /\ result \in [ok : {TRUE}, data : Seq(Bytes \cup CrcBytes)] \cup {[ok |-> FALSE], None}

Init ==
  /\ data \in Datas
  /\ zeros \in SomeZeros
  /\ padding \in Paddings
  /\ plain = None
  /\ damaged = FALSE
  /\ result = None

-----------------------------------------------------------------------------
(* The card and the link: external                                         *)

\* CRC32 of the data and a status byte, of which the bytes at places z are zero.
CRC32(d, z) == [i \in Places |-> IF i \in z THEN Zero ELSE <<d, i>>]

\* How many of n bytes are missing to whole blocks of the given size.
Missing(n, size) == (size - (n % size)) % size

Padding(n) ==
  [i \in 1 .. Missing(n, Block) |-> IF i = 1 /\ padding = "mark" THEN Mark ELSE Zero]

CardAnswer ==
  /\ plain = None
  /\ plain' = data \o CRC32(data, zeros) \o Padding(Len(data) + CrcLen)
  /\ UNCHANGED <<data, zeros, padding, damaged, result>>

BlockOf(i) == ((i - 1) \div Block) + 1
BytesOf(b) == {i \in DOMAIN plain : BlockOf(i) = b}

\* A block is damaged on the way: it decrypts to anything, and bytes of the next one,
\* which is chained to it, are wrong.  Or the first is decrypted with another IV.
Damage ==
  /\ plain # None
  /\ result = None
  /\ ~damaged
  /\ damaged' = TRUE
  /\ \E b \in {BlockOf(i) : i \in DOMAIN plain} :
     \E garbled \in [BytesOf(b) -> {Zero, Noise}],
        wrong \in [BytesOf(b + 1) -> {Zero, Noise, None}] :
       plain' = [i \in DOMAIN plain |->
                   IF BlockOf(i) = b THEN garbled[i]
                   ELSE IF BlockOf(i) = b + 1 /\ wrong[i] # None THEN wrong[i]
                   ELSE plain[i]]
  /\ UNCHANGED <<data, zeros, padding, result>>

-----------------------------------------------------------------------------
(* _postprocess                                                            *)

\* What the blocks that _add_padding completes the received n bytes with decrypt to.
HostPadding(n) ==
  LET missing == Missing(n, HostBlock)
  IN {tail \in [1 .. missing -> {Zero, Noise}] :
        missing > 0 => \E i \in 1 .. missing : tail[i] = Noise}

\* Seeded bug: the loop stops one byte late.
StripOneMore(bytes) ==
  LET kept == CHOOSE n \in 0 .. Len(bytes) :
                /\ n > 0 => bytes[n] # Zero
                /\ \A i \in (n + 1) .. Len(bytes) : bytes[i] = Zero
  IN SubSeq(bytes, 1, IF kept = Len(bytes) THEN kept ELSE kept - 1)

\* All zero bytes are removed from the end.
Stripped(bytes) ==
  LET kept == CHOOSE n \in 0 .. Len(bytes) :
                /\ n > 0 => bytes[n] # Zero
                /\ \A i \in (n + 1) .. Len(bytes) : bytes[i] = Zero
  IN SubSeq(bytes, 1, kept)

\* The last bytes of what is left, all of it if it is too short, and those before.
CrcReceived(bytes) ==
  SubSeq(bytes, IF Len(bytes) < CrcLen THEN 1 ELSE Len(bytes) - CrcLen + 1, Len(bytes))
Content(bytes) == SubSeq(bytes, 1, IF Len(bytes) < CrcLen THEN 0 ELSE Len(bytes) - CrcLen)

\* Seeded bug: a CRC is there, and that is enough.
CrcPresent(bytes, z) == Len(CrcReceived(bytes)) = CrcLen

\* The CRC is computed anew; of other data than the card's any byte of it may be zero.
CrcMatches(bytes, z) == CrcReceived(bytes) = CRC32(Content(bytes), z)

\* What is left of the decrypted answer and its padding.
Trimmed(tail) == Stripped(plain \o tail)

Accept ==
  /\ plain # None
  /\ result = None
  /\ \E tail \in HostPadding(Len(plain)), z \in SomeZeros :
       /\ Content(Trimmed(tail)) = data => z = zeros
       /\ CrcMatches(Trimmed(tail), z)
       /\ result' = [ok |-> TRUE, data |-> Content(Trimmed(tail))]
  /\ UNCHANGED <<data, zeros, padding, plain, damaged>>

\* "CRC verification failed!", or an IndexError if nothing but zeros is left.
Raise ==
  /\ plain # None
  /\ result = None
  /\ \E tail \in HostPadding(Len(plain)), z \in SomeZeros :
       /\ Content(Trimmed(tail)) = data => z = zeros
       /\ ~CrcMatches(Trimmed(tail), z)
  /\ result' = [ok |-> FALSE]
  /\ UNCHANGED <<data, zeros, padding, plain, damaged>>

Next == CardAnswer \/ Damage \/ Accept \/ Raise

Spec == Init /\ [][Next]_vars

-----------------------------------------------------------------------------
(* Properties                                                              *)

\* An answer that is accepted is what the card sent, whatever was damaged and
\* whatever bytes were stripped.
NeverWrong == result # None /\ result.ok => result.data = data

\* An undamaged answer is accepted exactly if its CRC does not end with a zero byte,
\* which the loop would take for padding, it has whole blocks of the size _add_padding
\* counts in, and no Mark is behind the CRC.  Zero bytes at the end of the data are safe.
AcceptedExactly ==
  result # None /\ ~damaged =>
    (result.ok <=> /\ CrcLen \notin zeros
                   /\ Missing(Len(plain), HostBlock) = 0
                   /\ padding = "mark" => Missing(Len(data) + CrcLen, Block) = 0)

====
