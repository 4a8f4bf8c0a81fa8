----------------------- MODULE EncryptedAnswerProofs -----------------------
(***************************************************************************)
(* What holds of EncryptedAnswer for data of every length, blocks and CRCs *)
(* of every length and damage to any block.                                *)
(***************************************************************************)
EXTENDS EncryptedAnswer, TLAPS, WellFoundedInduction

All == Bytes \cup CrcBytes

-----------------------------------------------------------------------------
(* Typing                                                                  *)

\* A CRC is bytes, as many as it has places.
LEMMA CrcTyped ==
  ASSUME NEW d \in Seq(Bytes), NEW z
  PROVE  CRC32(d, z) \in Seq(All) /\ Len(CRC32(d, z)) = CrcLen
<1>1. CrcLen \in Nat
  BY AnswerAssumption
<1>2. \A i \in Places : (IF i \in z THEN Zero ELSE <<d, i>>) \in All
  BY DEF All, Bytes, CrcBytes
<1>3. CRC32(d, z) \in [1 .. CrcLen -> All]
  BY <1>2 DEF CRC32, Places
<1> QED BY <1>1, <1>3

\* How many bytes are missing is a number.
LEMMA MissingTyped ==
  ASSUME NEW n \in Nat, NEW size \in Nat \ {0}
  PROVE  Missing(n, size) \in Nat
<1>1. n % size \in 0 .. size - 1
  OBVIOUS
<1>2. size - (n % size) \in Nat
  BY <1>1
<1> QED BY <1>2 DEF Missing

\* Padding is bytes.
LEMMA PaddingTyped ==
  ASSUME NEW n \in Nat
  PROVE  /\ Padding(n) \in Seq(All)
         /\ Len(Padding(n)) = Missing(n, Block) /\ Missing(n, Block) \in Nat
<1>1. Missing(n, Block) \in Nat
  BY MissingTyped, AnswerAssumption
<1>2. Padding(n) \in [1 .. Missing(n, Block) -> All]
  BY DEF Padding, All, Bytes
<1> QED BY <1>1, <1>2

\* So is what the host's own padding decrypts to: none if none is missing, and otherwise
\* it is not all zeros.
LEMMA HostPaddingTyped ==
  ASSUME NEW n \in Nat, NEW tail \in HostPadding(n)
  PROVE  /\ tail \in Seq(All) /\ Len(tail) = Missing(n, HostBlock)
         /\ \A i \in 1 .. Len(tail) : tail[i] \in Bytes
         /\ Len(tail) > 0 => \E i \in 1 .. Len(tail) : tail[i] # Zero
<1>1. Missing(n, HostBlock) \in Nat
  BY MissingTyped, AnswerAssumption
<1>2. tail \in [1 .. Missing(n, HostBlock) -> {Zero, Noise}]
  BY DEF HostPadding
<1>3. \A i \in 1 .. Missing(n, HostBlock) : tail[i] \in Bytes /\ tail[i] \in All
  BY <1>2 DEF Bytes, All
<1>4. tail \in Seq(All) /\ Len(tail) = Missing(n, HostBlock)
  BY <1>1, <1>2, <1>3
<1>5. Len(tail) > 0 => \E i \in 1 .. Len(tail) : tail[i] = Noise
  BY <1>4 DEF HostPadding
<1>6. Noise # Zero
  BY AnswerAssumption
<1> QED BY <1>3, <1>4, <1>5, <1>6

-----------------------------------------------------------------------------
(* Stripping                                                               *)

\* The least-number principle, for a set of numbers.
LEMMA LeastNatural ==
  ASSUME NEW T \in SUBSET Nat, T # {}
  PROVE  \E m \in T : \A n \in T : m <= n
<1> DEFINE R == OpToRel(<, Nat)
<1>1. IsWellFoundedOn(R, Nat)
  BY NatLessThanWellFounded
<1>2. \A m, n \in Nat : n < m => <<n, m>> \in R
  BY DEF OpToRel
<1> HIDE DEF R
<1>3. PICK m \in T : \A n \in T : <<n, m>> \notin R
  BY <1>1, WFMin
<1>4. ASSUME NEW n \in T PROVE m <= n
  <2>1. m \in Nat /\ n \in Nat /\ ~(n < m)
    BY <1>2, <1>3
  <2> QED BY <2>1
<1> QED BY <1>4

\* What is left of a byte list when the loop has removed its zeros.
IsKept(q, n) ==
  /\ n \in 0 .. Len(q)
  /\ n > 0 => q[n] # Zero
  /\ \A i \in (n + 1) .. Len(q) : q[i] = Zero

\* The loop comes to an end.
LEMMA StrippedIsKept ==
  ASSUME NEW q \in Seq(All)
  PROVE  \E n : IsKept(q, n) /\ Stripped(q) = SubSeq(q, 1, n)
<1> DEFINE Tails == {n \in 0 .. Len(q) : \A i \in (n + 1) .. Len(q) : q[i] = Zero}
<1>1. Len(q) \in Nat /\ Len(q) \in Tails /\ Tails \in SUBSET Nat
  OBVIOUS
<1>2. PICK m \in Tails : \A n \in Tails : m <= n
  <2> HIDE DEF Tails
  <2> QED BY <1>1, LeastNatural
<1>3. m > 0 => q[m] # Zero
  <2> SUFFICES ASSUME m > 0, q[m] = Zero
               PROVE  m - 1 \in Tails
    <3>1. m \in Nat /\ (m - 1 \in Tails => m <= m - 1)
      BY <1>1, <1>2
    <3> QED BY <3>1
  <2>1. \A i \in (m - 1 + 1) .. Len(q) : i = m \/ i \in (m + 1) .. Len(q)
    BY <1>1, <1>2
  <2> QED BY <1>1, <1>2, <2>1
<1>4. IsKept(q, m)
  BY <1>2, <1>3 DEF IsKept
<1>5. \E n \in 0 .. Len(q) :
        /\ n > 0 => q[n] # Zero
        /\ \A i \in (n + 1) .. Len(q) : q[i] = Zero
  BY <1>4 DEF IsKept
<1> QED BY <1>5 DEF Stripped, IsKept

\* Stripping, and splitting what is left, adds no bytes.
LEMMA StrippedTyped ==
  ASSUME NEW q \in Seq(All)
  PROVE  /\ Stripped(q) \in Seq(All)
         /\ \A i \in 1 .. Len(Stripped(q)) : i \in 1 .. Len(q) /\ Stripped(q)[i] = q[i]
         /\ Content(Stripped(q)) \in Seq(All)
<1>1. PICK n : IsKept(q, n) /\ Stripped(q) = SubSeq(q, 1, n)
  BY StrippedIsKept
<1>2. n \in 0 .. Len(q)
  BY <1>1 DEF IsKept
<1>3. /\ Stripped(q) \in Seq(All)
      /\ \A i \in 1 .. Len(Stripped(q)) : i \in 1 .. Len(q) /\ Stripped(q)[i] = q[i]
  BY <1>1, <1>2
<1>4. \A b \in Seq(All) : Content(b) \in Seq(All)
  BY AnswerAssumption DEF Content
<1> QED BY <1>3, <1>4

-----------------------------------------------------------------------------
(* The invariant                                                           *)

\* Whatever is damaged, the bytes of a CRC in an answer are those of the card's data.
Genuine == plain # None => \A i \in 1 .. Len(plain) : plain[i] \in Bytes \cup ({data} \X Places)

\* An undamaged answer is what the card made of its data.
Undamaged ==
  (plain # None /\ ~damaged) =>
    plain = data \o CRC32(data, zeros) \o Padding(Len(data) + CrcLen)

Waiting == plain = None => ~damaged /\ result = None

IInv == TypeOK /\ Genuine /\ Undamaged /\ Waiting

LEMMA InitInv == Init => IInv
BY DEF Init, IInv, TypeOK, Genuine, Undamaged, Waiting

LEMMA AnswerInv ==
  ASSUME IInv, CardAnswer
  PROVE  IInv'
<1> DEFINE crc == CRC32(data, zeros)
           pad == Padding(Len(data) + CrcLen)
<1>1. data \in Seq(Bytes) /\ data \in Seq(All)
  BY AnswerAssumption DEF IInv, TypeOK, All
<1>2. crc \in Seq(All) /\ Len(crc) = CrcLen
  BY <1>1, CrcTyped
<1>3. pad \in Seq(All)
  BY <1>1, PaddingTyped, AnswerAssumption
<1>4. plain' = data \o crc \o pad /\ UNCHANGED <<data, zeros, padding, damaged, result>>
  BY DEF CardAnswer
<1>5. \A i \in 1 .. Len(crc) : crc[i] \in Bytes \cup ({data} \X Places)
  BY <1>1, CrcTyped DEF CRC32, Places, Bytes
<1>6. \A i \in 1 .. Len(pad) : pad[i] \in Bytes
  <2>1. Len(data) + CrcLen \in Nat
    BY <1>1, AnswerAssumption
  <2>2. \A i \in 1 .. Missing(Len(data) + CrcLen, Block) : pad[i] \in {Mark, Zero}
    BY DEF Padding
  <2> QED BY <2>1, <2>2, PaddingTyped DEF Bytes
<1> HIDE DEF crc, pad
<1>7. data \o crc \o pad \in Seq(All)
  BY <1>1, <1>2, <1>3
<1>8. \A i \in 1 .. Len(data \o crc \o pad) :
        \/ \E j \in 1 .. Len(data) : (data \o crc \o pad)[i] = data[j]
        \/ \E j \in 1 .. Len(crc) : (data \o crc \o pad)[i] = crc[j]
        \/ \E j \in 1 .. Len(pad) : (data \o crc \o pad)[i] = pad[j]
  <2>1. data \o crc \in Seq(All) /\ Len(data \o crc) = Len(data) + Len(crc)
    BY <1>1, <1>2
  <2>2. \A i \in 1 .. Len(data \o crc) :
          \/ i \in 1 .. Len(data) /\ (data \o crc)[i] = data[i]
          \/ i - Len(data) \in 1 .. Len(crc) /\ (data \o crc)[i] = crc[i - Len(data)]
    BY <1>1, <1>2
  <2>3. \A i \in 1 .. Len(data \o crc \o pad) :
          \/ i \in 1 .. Len(data \o crc) /\ (data \o crc \o pad)[i] = (data \o crc)[i]
          \/ /\ i - Len(data \o crc) \in 1 .. Len(pad)
             /\ (data \o crc \o pad)[i] = pad[i - Len(data \o crc)]
    BY <1>3, <2>1
  <2> QED BY <2>2, <2>3
<1>9. Genuine'
  BY <1>1, <1>4, <1>5, <1>6, <1>8 DEF Genuine
<1>10. TypeOK'
  BY <1>4, <1>7 DEF IInv, TypeOK, All
<1>11. Undamaged'
  BY <1>4 DEF Undamaged, crc, pad, Padding
<1>12. Waiting'
  BY <1>4, <1>7, AnswerAssumption DEF Waiting, All
<1> QED BY <1>9, <1>10, <1>11, <1>12 DEF IInv

LEMMA DamageInv ==
  ASSUME IInv, Damage
  PROVE  IInv'
<1>1. plain # None /\ plain \in Seq(All)
  BY DEF Damage, IInv, TypeOK, All
<1> DEFINE result_of(b, garbled, wrong) ==
             [i \in DOMAIN plain |->
                IF BlockOf(i) = b THEN garbled[i]
                ELSE IF BlockOf(i) = b + 1 /\ wrong[i] # None THEN wrong[i]
                ELSE plain[i]]
<1>2. \E b : \E garbled \in [BytesOf(b) -> {Zero, Noise}],
               wrong \in [BytesOf(b + 1) -> {Zero, Noise, None}] :
        plain' = result_of(b, garbled, wrong)
  BY ZenonT(30) DEF Damage
<1>3. Len(plain) \in Nat /\ DOMAIN plain = 1 .. Len(plain)
  BY <1>1
<1>4. /\ plain' = [i \in 1 .. Len(plain) |-> plain'[i]]
      /\ \A i \in 1 .. Len(plain) : plain'[i] \in {plain[i], Zero, Noise}
  <2>1. PICK b : \E garbled \in [BytesOf(b) -> {Zero, Noise}],
                   wrong \in [BytesOf(b + 1) -> {Zero, Noise, None}] :
          plain' = result_of(b, garbled, wrong)
    BY <1>2
  <2>2. PICK garbled \in [BytesOf(b) -> {Zero, Noise}],
             wrong \in [BytesOf(b + 1) -> {Zero, Noise, None}] :
          plain' = result_of(b, garbled, wrong)
    BY <2>1
  <2>3. DOMAIN plain' = 1 .. Len(plain) /\ plain' = [i \in DOMAIN plain' |-> plain'[i]]
    BY <1>3, <2>2
  <2>4. ASSUME NEW i \in 1 .. Len(plain)
        PROVE  plain'[i] \in {plain[i], Zero, Noise}
    <3>1. i \in DOMAIN plain /\ (BlockOf(i) = b => i \in BytesOf(b))
            /\ (BlockOf(i) = b + 1 => i \in BytesOf(b + 1))
      BY <1>3 DEF BytesOf
    <3>2. plain'[i] = IF BlockOf(i) = b THEN garbled[i]
                      ELSE IF BlockOf(i) = b + 1 /\ wrong[i] # None THEN wrong[i]
                      ELSE plain[i]
      BY <2>2, <3>1
    <3>3. BlockOf(i) = b => garbled[i] \in {Zero, Noise}
      BY <3>1
    <3>4. BlockOf(i) = b + 1 /\ wrong[i] # None => wrong[i] \in {Zero, Noise}
      BY <3>1
    <3> HIDE DEF result_of
    <3> QED BY <3>2, <3>3, <3>4
  <2> QED BY <2>3, <2>4
<1> HIDE DEF result_of
<1>5. plain' \in [1 .. Len(plain) -> All]
  <2>1. \A i \in 1 .. Len(plain) : plain'[i] \in All
    BY <1>1, <1>4 DEF All, Bytes
  <2> QED BY <1>4, <2>1
<1>6. plain' \in Seq(All) /\ Len(plain') = Len(plain)
  BY <1>3, <1>5
<1>7. UNCHANGED <<data, zeros, padding, result>> /\ damaged' = TRUE
  BY DEF Damage
<1>8. Genuine'
  BY <1>1, <1>4, <1>6, <1>7 DEF IInv, Genuine, Bytes
<1>9. None \notin Seq(All)
  BY AnswerAssumption DEF All
<1> QED BY <1>6, <1>7, <1>8, <1>9 DEF IInv, TypeOK, Undamaged, Waiting, All

\* The answer and its padding, decrypted, trimmed and split, are byte lists.
LEMMA TrimmedTyped ==
  ASSUME IInv, plain # None, NEW tail \in HostPadding(Len(plain))
  PROVE  /\ plain \o tail \in Seq(All)
         /\ \A i \in 1 .. Len(plain \o tail) :
              (plain \o tail)[i] \in Bytes \cup ({data} \X Places)
         /\ Trimmed(tail) \in Seq(All) /\ Content(Trimmed(tail)) \in Seq(All)
<1>1. plain \in Seq(All) /\ Len(plain) \in Nat
  BY DEF IInv, TypeOK, All
<1>2. tail \in Seq(All) /\ \A i \in 1 .. Len(tail) : tail[i] \in Bytes
  BY <1>1, HostPaddingTyped
<1>3. plain \o tail \in Seq(All)
  BY <1>1, <1>2
<1>4. ASSUME NEW i \in 1 .. Len(plain \o tail)
      PROVE  (plain \o tail)[i] \in Bytes \cup ({data} \X Places)
  <2>1. \/ i \in 1 .. Len(plain) /\ (plain \o tail)[i] = plain[i]
        \/ i - Len(plain) \in 1 .. Len(tail) /\ (plain \o tail)[i] = tail[i - Len(plain)]
    BY <1>1, <1>2
  <2> QED BY <1>2, <2>1 DEF IInv, Genuine
<1> QED BY <1>3, <1>4, StrippedTyped DEF Trimmed

LEMMA HostInv ==
  ASSUME IInv, Accept \/ Raise
  PROVE  IInv'
<1>1. UNCHANGED <<data, zeros, padding, plain, damaged>> /\ plain # None
  BY DEF Accept, Raise
<1>2. TypeOK'
  <2>1. result' \in [ok : {TRUE}, data : Seq(Bytes \cup CrcBytes)] \cup {[ok |-> FALSE], None}
    <3>1. CASE Accept
      <4>1. PICK tail \in HostPadding(Len(plain)) :
              result' = [ok |-> TRUE, data |-> Content(Trimmed(tail))]
        BY <3>1 DEF Accept
      <4>2. Content(Trimmed(tail)) \in Seq(Bytes \cup CrcBytes)
        BY <1>1, TrimmedTyped DEF All
      <4> QED BY <4>1, <4>2
    <3>2. CASE Raise
      BY <3>2 DEF Raise
    <3> QED BY <3>1, <3>2
  <2> QED BY <1>1, <2>1 DEF IInv, TypeOK
<1> QED BY <1>1, <1>2 DEF IInv, Genuine, Undamaged, Waiting, Padding

LEMMA StepInv == IInv /\ [Next]_vars => IInv'
<1> SUFFICES ASSUME IInv, [Next]_vars PROVE IInv'
  OBVIOUS
<1>1. CASE UNCHANGED vars
  BY <1>1 DEF vars, IInv, TypeOK, Genuine, Undamaged, Waiting, Padding
<1> QED BY <1>1, AnswerInv, DamageInv, HostInv DEF Next

-----------------------------------------------------------------------------
(* Accepting and refusing                                                  *)

\* What passes the check ends with a byte that only a CRC of the same data has.
LEMMA AcceptsOnlyData ==
  ASSUME IInv, plain # None, NEW tail \in HostPadding(Len(plain)),
         NEW z \in SomeZeros, CrcMatches(Trimmed(tail), z)
  PROVE  Content(Trimmed(tail)) = data
<1> DEFINE whole == plain \o tail
           kept == Stripped(whole)
           content == Content(kept)
<1>1. /\ whole \in Seq(All)
      /\ \A i \in 1 .. Len(whole) : whole[i] \in Bytes \cup ({data} \X Places)
  BY TrimmedTyped
<1>2. /\ kept \in Seq(All) /\ content \in Seq(All)
      /\ \A i \in 1 .. Len(kept) : i \in 1 .. Len(whole) /\ kept[i] = whole[i]
  BY <1>1, StrippedTyped
<1>3. PICK place \in Places : place \notin z
  <2>1. z \subseteq Places /\ z # Places
    BY DEF SomeZeros
  <2> QED BY <2>1
<1>4. CrcReceived(kept) = [i \in Places |-> IF i \in z THEN Zero ELSE <<content, i>>]
  BY DEF CrcMatches, CRC32, Trimmed
<1> HIDE DEF whole, kept, content
<1>5. CrcReceived(kept)[place] = <<content, place>> /\ DOMAIN CrcReceived(kept) = Places
  BY <1>3, <1>4
<1>6. PICK i \in 1 .. Len(kept) : CrcReceived(kept)[place] = kept[i]
  <2> DEFINE first == IF Len(kept) < CrcLen THEN 1 ELSE Len(kept) - CrcLen + 1
  <2>1. first \in 1 .. Len(kept) + 1 /\ CrcReceived(kept) = SubSeq(kept, first, Len(kept))
    BY <1>2, AnswerAssumption DEF CrcReceived
  <2> HIDE DEF first
  <2>2. place \in DOMAIN CrcReceived(kept)
    BY <1>5
  <2>3. place \in 1 .. Len(kept) - first + 1
    BY <1>2, <2>1, <2>2
  <2>4. first + place - 1 \in 1 .. Len(kept) /\ CrcReceived(kept)[place] = kept[first + place - 1]
    BY <1>2, <2>1, <2>3
  <2> QED BY <2>4
<1>7. <<content, place>> \in Bytes \cup ({data} \X Places)
  BY <1>1, <1>2, <1>5, <1>6
<1>8. <<content, place>> \in Seq(Bytes \cup CrcBytes) \X Places
  BY <1>2, <1>3 DEF All
<1>9. <<content, place>> \in {data} \X Places
  BY <1>7, <1>8, AnswerAssumption
<1> QED BY <1>9 DEF content, kept, whole, Trimmed

\* The bytes of two lists, one behind the other.
LEMMA Joined ==
  ASSUME NEW a \in Seq(All), NEW b \in Seq(All)
  PROVE  /\ Len(a \o b) = Len(a) + Len(b)
         /\ \A i \in 1 .. Len(a) : (a \o b)[i] = a[i]
         /\ \A i \in 1 .. Len(b) : (a \o b)[Len(a) + i] = b[i]
OBVIOUS

\* The card's data and CRC, which undamaged answers begin with.
LEMMA Sent ==
  ASSUME IInv, plain # None, ~damaged
  PROVE  \E whole, pad \in Seq(All) :
           /\ plain = whole \o pad
           /\ Len(data) \in Nat /\ Len(whole) = Len(data) + CrcLen
           /\ Len(pad) = Missing(Len(data) + CrcLen, Block)
           /\ whole[Len(whole)] = CRC32(data, zeros)[CrcLen]
           /\ SubSeq(whole, 1, Len(data)) = data
           /\ SubSeq(whole, Len(data) + 1, Len(whole)) = CRC32(data, zeros)
           /\ padding # "mark" => \A i \in 1 .. Len(pad) : pad[i] = Zero
           /\ padding = "mark" /\ Len(pad) > 0 => pad[1] = Mark
<1> DEFINE crc == CRC32(data, zeros)
           pad == Padding(Len(data) + CrcLen)
           whole == data \o crc
<1>1. data \in Seq(Bytes) /\ data \in Seq(All) /\ CrcLen \in Nat \ {0}
  BY AnswerAssumption DEF IInv, TypeOK, All
<1>2. crc \in Seq(All) /\ Len(crc) = CrcLen
  BY <1>1, CrcTyped
<1>3. /\ pad \in Seq(All) /\ Len(pad) = Missing(Len(data) + CrcLen, Block)
      /\ \A i \in 1 .. Len(pad) :
           pad[i] = IF i = 1 /\ padding = "mark" THEN Mark ELSE Zero
  <2>1. Len(data) + CrcLen \in Nat
    BY <1>1
  <2>2. \A i \in 1 .. Missing(Len(data) + CrcLen, Block) :
          pad[i] = IF i = 1 /\ padding = "mark" THEN Mark ELSE Zero
    BY DEF Padding
  <2> QED BY <2>1, <2>2, PaddingTyped
<1>4. plain = whole \o pad
  BY DEF IInv, Undamaged
<1> HIDE DEF crc, pad
<1>5. /\ whole \in Seq(All) /\ Len(whole) = Len(data) + CrcLen
      /\ whole[Len(whole)] = crc[CrcLen]
      /\ SubSeq(whole, 1, Len(data)) = data
      /\ SubSeq(whole, Len(data) + 1, Len(whole)) = crc
  <2>1. whole \in Seq(All) /\ Len(whole) = Len(data) + CrcLen
    BY <1>1, <1>2
  <2>2. /\ \A i \in 1 .. Len(data) : whole[i] = data[i]
        /\ \A i \in 1 .. Len(crc) : whole[Len(data) + i] = crc[i]
    BY <1>1, <1>2
  <2>3. whole[Len(whole)] = crc[CrcLen]
    BY <1>1, <1>2, <2>1, <2>2
  <2>4. SubSeq(whole, 1, Len(data)) = data
    BY <1>1, <1>2, <2>1, <2>2
  <2>5. SubSeq(whole, Len(data) + 1, Len(whole)) = crc
    BY <1>1, <1>2, <2>1, <2>2
  <2> QED BY <2>1, <2>3, <2>4, <2>5
<1>6. /\ padding # "mark" => \A i \in 1 .. Len(pad) : pad[i] = Zero
      /\ padding = "mark" /\ Len(pad) > 0 => pad[1] = Mark
  BY <1>3
<1>7. Len(data) \in Nat
  BY <1>1
<1> HIDE DEF whole
<1> QED BY <1>3, <1>4, <1>5, <1>6, <1>7 DEF crc

\* What has to hold of an undamaged answer for the host to accept it.
Acceptable ==
  /\ CrcLen \notin zeros
  /\ Missing(Len(plain), HostBlock) = 0
  /\ padding = "mark" => Missing(Len(data) + CrcLen, Block) = 0

\* The last byte of a CRC.
LEMMA LastOfCrc ==
  ASSUME IInv
  PROVE  CRC32(data, zeros)[CrcLen] = Zero <=> CrcLen \in zeros
<1>1. CrcLen \in Places /\ data \in Seq(Bytes)
  BY AnswerAssumption DEF IInv, TypeOK, Places
<1>2. <<data, CrcLen>> \in CrcBytes
  BY <1>1 DEF CrcBytes
<1> QED BY <1>1, <1>2, AnswerAssumption DEF CRC32

\* The zeros behind such an answer's CRC are all that is stripped.
LEMMA AcceptsAcceptable ==
  ASSUME IInv, plain # None, ~damaged, Acceptable, NEW tail \in HostPadding(Len(plain))
  PROVE  Content(Trimmed(tail)) = data /\ CrcMatches(Trimmed(tail), zeros)
<1>1. plain \in Seq(All) /\ Len(plain) \in Nat /\ CrcLen \in Nat \ {0}
  BY AnswerAssumption DEF IInv, TypeOK, All
<1>2. Trimmed(tail) = Stripped(plain)
  <2>1. tail \in Seq(All) /\ Len(tail) = 0
    BY <1>1, HostPaddingTyped DEF Acceptable
  <2>2. plain \o tail = plain
    BY <1>1, <2>1
  <2> QED BY <2>2 DEF Trimmed
<1>3. PICK whole, pad \in Seq(All) :
        /\ plain = whole \o pad
        /\ Len(data) \in Nat /\ Len(whole) = Len(data) + CrcLen
        /\ Len(pad) = Missing(Len(data) + CrcLen, Block)
        /\ whole[Len(whole)] = CRC32(data, zeros)[CrcLen]
        /\ SubSeq(whole, 1, Len(data)) = data
        /\ SubSeq(whole, Len(data) + 1, Len(whole)) = CRC32(data, zeros)
        /\ padding # "mark" => \A i \in 1 .. Len(pad) : pad[i] = Zero
  BY Sent
<1>4. \A i \in 1 .. Len(pad) : pad[i] = Zero
  BY <1>3 DEF Acceptable
<1>5. whole[Len(whole)] # Zero
  BY <1>3, LastOfCrc DEF Acceptable
<1>6. PICK n : IsKept(plain, n) /\ Stripped(plain) = SubSeq(plain, 1, n)
  BY <1>1, StrippedIsKept
<1>7. /\ Len(plain) = Len(whole) + Len(pad)
      /\ \A i \in 1 .. Len(whole) : plain[i] = whole[i]
      /\ \A i \in (Len(whole) + 1) .. Len(plain) : plain[i] = Zero
  <2>1. /\ Len(plain) = Len(whole) + Len(pad)
        /\ \A i \in 1 .. Len(whole) : plain[i] = whole[i]
        /\ \A i \in 1 .. Len(pad) : plain[Len(whole) + i] = pad[i]
    BY <1>3, Joined
  <2>2. Len(whole) \in Nat /\ Len(pad) \in Nat
    BY <1>3
  <2>3. ASSUME NEW i \in (Len(whole) + 1) .. Len(plain)
        PROVE  plain[i] = Zero
    <3>1. i - Len(whole) \in 1 .. Len(pad) /\ Len(whole) + (i - Len(whole)) = i
      BY <2>1, <2>2
    <3> QED BY <1>4, <2>1, <3>1
  <2> QED BY <2>1, <2>3
<1>8. n = Len(whole)
  <2>1. n \in Nat /\ Len(whole) \in Nat /\ Len(pad) \in Nat /\ Len(whole) > 0
    BY <1>1, <1>3, <1>6, <1>7 DEF IsKept
  <2>2. ~(n < Len(whole))
    BY <1>5, <1>6, <1>7, <2>1 DEF IsKept
  <2>3. ~(n > Len(whole))
    BY <1>6, <1>7, <2>1 DEF IsKept
  <2> QED BY <2>1, <2>2, <2>3
<1>9. Stripped(plain) = whole
  BY <1>3, <1>6, <1>8
<1>10. Content(whole) = data /\ CrcReceived(whole) = CRC32(data, zeros)
  <2>1. ~(Len(whole) < CrcLen) /\ Len(whole) - CrcLen = Len(data)
    BY <1>1, <1>3
  <2> QED BY <1>3, <2>1 DEF Content, CrcReceived
<1> QED BY <1>2, <1>9, <1>10 DEF CrcMatches

\* If the CRC is found where the card put it, only zeros were behind it.
LEMMA AcceptsOnlyAcceptable ==
  ASSUME IInv, plain # None, ~damaged, NEW tail \in HostPadding(Len(plain)),
         Content(Trimmed(tail)) = data, CrcMatches(Trimmed(tail), zeros)
  PROVE  Acceptable
<1> DEFINE all == plain \o tail
           kept == Stripped(all)
<1>1. plain \in Seq(All) /\ Len(plain) \in Nat /\ CrcLen \in Nat \ {0}
  BY AnswerAssumption DEF IInv, TypeOK, All
<1>2. /\ tail \in Seq(All) /\ Len(tail) = Missing(Len(plain), HostBlock)
      /\ Len(tail) > 0 => \E i \in 1 .. Len(tail) : tail[i] # Zero
  BY <1>1, HostPaddingTyped
<1>3. all \in Seq(All) /\ kept \in Seq(All)
  BY TrimmedTyped DEF Trimmed
<1>4. Content(kept) = data /\ CrcReceived(kept) = CRC32(data, zeros)
  BY DEF CrcMatches, Trimmed
<1>5. Len(CRC32(data, zeros)) = CrcLen /\ data \in Seq(All) /\ Len(data) \in Nat
  <2>1. data \in Seq(Bytes)
    BY AnswerAssumption DEF IInv, TypeOK
  <2> QED BY <2>1, CrcTyped DEF All
<1>6. PICK whole, pad \in Seq(All) :
        /\ plain = whole \o pad
        /\ Len(whole) = Len(data) + CrcLen
        /\ Len(pad) = Missing(Len(data) + CrcLen, Block)
        /\ whole[Len(whole)] = CRC32(data, zeros)[CrcLen]
        /\ padding = "mark" /\ Len(pad) > 0 => pad[1] = Mark
  BY Sent
<1>7. PICK n : IsKept(all, n) /\ kept = SubSeq(all, 1, n)
  BY <1>3, StrippedIsKept
<1> HIDE DEF all, kept
<1>8. Len(kept) = Len(whole)
  <2>1. CASE Len(kept) < CrcLen
    <3>1. CrcReceived(kept) = SubSeq(kept, 1, Len(kept))
      BY <2>1 DEF CrcReceived
    <3>2. Len(CrcReceived(kept)) = Len(kept)
      BY <1>3, <3>1
    <3> QED BY <1>4, <1>5, <2>1, <3>2
  <2>2. CASE ~(Len(kept) < CrcLen)
    <3>1. Content(kept) = SubSeq(kept, 1, Len(kept) - CrcLen)
      BY <2>2 DEF Content
    <3>2. Len(Content(kept)) = Len(kept) - CrcLen
      BY <1>1, <1>3, <2>2, <3>1
    <3> QED BY <1>1, <1>3, <1>4, <1>5, <1>6, <3>2
  <2> QED BY <2>1, <2>2
<1>9. n \in 0 .. Len(all) /\ n = Len(whole) /\ n > 0
  <2>1. n \in 0 .. Len(all) /\ Len(kept) = n
    BY <1>3, <1>7 DEF IsKept
  <2> QED BY <1>1, <1>5, <1>6, <1>8, <2>1
<1>10. /\ \A i \in 1 .. Len(whole) : all[i] = whole[i]
       /\ \A i \in 1 .. Len(pad) : all[Len(whole) + i] = pad[i]
       /\ \A i \in 1 .. Len(tail) : all[Len(plain) + i] = tail[i]
       /\ Len(plain) = Len(whole) + Len(pad) /\ Len(all) = Len(plain) + Len(tail)
  <2>1. /\ Len(plain) = Len(whole) + Len(pad)
        /\ \A i \in 1 .. Len(whole) : plain[i] = whole[i]
        /\ \A i \in 1 .. Len(pad) : plain[Len(whole) + i] = pad[i]
    BY <1>6, Joined
  <2>2. /\ Len(all) = Len(plain) + Len(tail)
        /\ \A i \in 1 .. Len(plain) : all[i] = plain[i]
        /\ \A i \in 1 .. Len(tail) : all[Len(plain) + i] = tail[i]
    BY <1>1, <1>2, Joined DEF all
  <2>3. Len(whole) \in Nat /\ Len(pad) \in Nat
    BY <1>6
  <2> QED BY <2>1, <2>2, <2>3
<1>11. CrcLen \notin zeros
  <2>1. all[n] # Zero
    BY <1>7, <1>9 DEF IsKept
  <2>2. all[n] = CRC32(data, zeros)[CrcLen]
    BY <1>6, <1>9, <1>10
  <2> QED BY <2>1, <2>2, LastOfCrc
<1>12. \A i \in (Len(whole) + 1) .. Len(all) : all[i] = Zero
  BY <1>7, <1>9 DEF IsKept
<1>13. Len(whole) \in Nat /\ Len(pad) \in Nat /\ Len(tail) \in Nat
  BY <1>2, <1>6
<1>14. Missing(Len(plain), HostBlock) = 0
  <2> SUFFICES ASSUME Len(tail) > 0 PROVE FALSE
    BY <1>2, <1>13
  <2>1. PICK i \in 1 .. Len(tail) : tail[i] # Zero
    BY <1>2
  <2>2. Len(plain) + i \in (Len(whole) + 1) .. Len(all)
    BY <1>10, <1>13
  <2> QED BY <1>10, <1>12, <2>1, <2>2
<1>15. ASSUME padding = "mark" PROVE Missing(Len(data) + CrcLen, Block) = 0
  <2> SUFFICES ASSUME Len(pad) > 0 PROVE FALSE
    BY <1>6, <1>13
  <2>1. Len(whole) + 1 \in (Len(whole) + 1) .. Len(all) /\ 1 \in 1 .. Len(pad)
    BY <1>10, <1>13
  <2>2. Mark = Zero
    BY <1>6, <1>10, <1>12, <1>15, <2>1
  <2> QED BY <2>2, AnswerAssumption
<1> QED BY <1>11, <1>14, <1>15 DEF Acceptable

\* NeverWrong and AcceptedExactly with what they rest on.
Verdicts == IInv /\ NeverWrong /\ AcceptedExactly

LEMMA StepVerdicts == Verdicts /\ [Next]_vars => Verdicts'
<1> SUFFICES ASSUME Verdicts, [Next]_vars PROVE Verdicts'
  OBVIOUS
<1>1. IInv'
  BY StepInv DEF Verdicts
<1>2. CASE UNCHANGED vars
  BY <1>1, <1>2 DEF vars, Verdicts, NeverWrong, AcceptedExactly
<1>3. CASE CardAnswer \/ Damage
  <2>1. result = None /\ result' = None
    BY <1>3 DEF CardAnswer, Damage, Verdicts, IInv, Waiting
  <2> QED BY <1>1, <2>1 DEF Verdicts, NeverWrong, AcceptedExactly
<1>4. CASE Accept
  <2>1. PICK tail \in HostPadding(Len(plain)), z \in SomeZeros :
          /\ Content(Trimmed(tail)) = data => z = zeros
          /\ CrcMatches(Trimmed(tail), z)
          /\ result' = [ok |-> TRUE, data |-> Content(Trimmed(tail))]
    BY <1>4 DEF Accept
  <2>2. plain # None /\ UNCHANGED <<data, zeros, padding, plain, damaged>>
    BY <1>4 DEF Accept
  <2>3. Content(Trimmed(tail)) = data
    BY <2>1, <2>2, AcceptsOnlyData DEF Verdicts
  <2>4. ~damaged => Acceptable
    BY <2>1, <2>2, <2>3, AcceptsOnlyAcceptable DEF Verdicts
  <2>5. result' = [ok |-> TRUE, data |-> data] /\ result'.ok
    BY <2>1, <2>3
  <2>6. NeverWrong'
    BY <2>2, <2>5 DEF NeverWrong
  <2>7. AcceptedExactly'
    BY <2>2, <2>4, <2>5 DEF AcceptedExactly, Acceptable
  <2> QED BY <1>1, <2>6, <2>7 DEF Verdicts
<1>5. CASE Raise
  <2>1. PICK tail \in HostPadding(Len(plain)), z \in SomeZeros :
          /\ Content(Trimmed(tail)) = data => z = zeros
          /\ ~CrcMatches(Trimmed(tail), z)
    BY <1>5 DEF Raise
  <2>2. result' = [ok |-> FALSE] /\ plain # None /\ UNCHANGED <<data, zeros, padding, plain, damaged>>
    BY <1>5 DEF Raise
  <2>3. ~damaged => ~Acceptable
    BY <2>1, <2>2, AcceptsAcceptable DEF Verdicts
  <2>4. ~result'.ok
    BY <2>2
  <2>5. NeverWrong'
    BY <2>4 DEF NeverWrong
  <2>6. AcceptedExactly'
    BY <2>2, <2>3, <2>4 DEF AcceptedExactly, Acceptable
  <2> QED BY <1>1, <2>5, <2>6 DEF Verdicts
<1> QED BY <1>2, <1>3, <1>4, <1>5 DEF Next

LEMMA AlwaysVerdicts == Spec => []Verdicts
<1>1. Init => Verdicts
  BY InitInv DEF Init, Verdicts, NeverWrong, AcceptedExactly
<1> QED BY <1>1, StepVerdicts, PTL DEF Spec

\* An answer that is accepted is what the card sent, for blocks and CRCs of any length
\* and any damage.
THEOREM NeverWrongCorrect == Spec => []NeverWrong
<1>1. Verdicts => NeverWrong
  BY DEF Verdicts
<1> QED BY <1>1, AlwaysVerdicts, PTL

\* An undamaged answer is accepted exactly if its CRC does not end with a zero byte, it
\* has whole blocks as the host counts them, and no mark is behind the CRC.
THEOREM AcceptedExactlyCorrect == Spec => []AcceptedExactly
<1>1. Verdicts => AcceptedExactly
  BY DEF Verdicts
<1> QED BY <1>1, AlwaysVerdicts, PTL
=============================================================================
