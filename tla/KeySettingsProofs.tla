------------------------- MODULE KeySettingsProofs -------------------------
(***************************************************************************)
(* What holds of KeySettings for every list a caller can put together.     *)
(***************************************************************************)
EXTENDS KeySettings, FiniteSetTheorems, NaturalsInduction, WellFoundedInduction, TLAPS

-----------------------------------------------------------------------------
(* Bytes and their bits                                                    *)

Bytes == 0 .. 255
Bit(n, w) == (n \div w) % 2

LEMMA BitsDef ==
  ASSUME NEW n \in Bytes
  PROVE  Bits(n) = {w \in Weights : Bit(n, w) = 1}
  BY DEF Bits, BitsOf, Bytes, Bit

\* A number is the byte of these eight bits.
IsByteOf(n, a, b, c, d, e, f, g, h) ==
  n = a + 2 * b + 4 * c + 8 * d + 16 * e + 32 * f + 64 * g + 128 * h

HasBits(n, a, b, c, d, e, f, g, h) ==
  /\ Bit(n, 1) = a /\ Bit(n, 2) = b /\ Bit(n, 4) = c /\ Bit(n, 8) = d
  /\ Bit(n, 16) = e /\ Bit(n, 32) = f /\ Bit(n, 64) = g /\ Bit(n, 128) = h

\* A byte is the sum of its bits ...
LEMMA Digits ==
  ASSUME NEW n \in Bytes
  PROVE  \E a, b, c, d, e, f, g, h \in 0 .. 1 :
           IsByteOf(n, a, b, c, d, e, f, g, h) /\ HasBits(n, a, b, c, d, e, f, g, h)
<1>1. /\ Bit(n, 1) \in 0 .. 1 /\ Bit(n, 2) \in 0 .. 1 /\ Bit(n, 4) \in 0 .. 1
      /\ Bit(n, 8) \in 0 .. 1 /\ Bit(n, 16) \in 0 .. 1 /\ Bit(n, 32) \in 0 .. 1
      /\ Bit(n, 64) \in 0 .. 1 /\ Bit(n, 128) \in 0 .. 1
  BY DEF Bytes, Bit
<1>2. IsByteOf(n, Bit(n, 1), Bit(n, 2), Bit(n, 4), Bit(n, 8),
               Bit(n, 16), Bit(n, 32), Bit(n, 64), Bit(n, 128))
  BY DEF Bytes, Bit, IsByteOf
<1>3. HasBits(n, Bit(n, 1), Bit(n, 2), Bit(n, 4), Bit(n, 8),
              Bit(n, 16), Bit(n, 32), Bit(n, 64), Bit(n, 128))
  BY DEF HasBits
<1> QED
  BY <1>1, <1>2, <1>3, Zenon

\* ... and no other bits have that sum.
LEMMA Composed ==
  ASSUME NEW a \in 0 .. 1, NEW b \in 0 .. 1, NEW c \in 0 .. 1, NEW d \in 0 .. 1,
         NEW e \in 0 .. 1, NEW f \in 0 .. 1, NEW g \in 0 .. 1, NEW h \in 0 .. 1,
         NEW n, IsByteOf(n, a, b, c, d, e, f, g, h)
  PROVE  n \in Bytes /\ HasBits(n, a, b, c, d, e, f, g, h)
  BY DEF Bytes, Bit, IsByteOf, HasBits

\* Bytes that have no bit in common add up to the byte with the bits of both.
LEMMA BitsAdd ==
  ASSUME NEW m \in Bytes, NEW n \in Bytes, Bits(m) \cap Bits(n) = {}
  PROVE  m + n \in Bytes /\ Bits(m + n) = Bits(m) \cup Bits(n)
<1>1. PICK a1, b1, c1, d1, e1, f1, g1, h1 \in 0 .. 1 :
        /\ IsByteOf(m, a1, b1, c1, d1, e1, f1, g1, h1)
        /\ HasBits(m, a1, b1, c1, d1, e1, f1, g1, h1)
  BY Digits
<1>2. PICK a2, b2, c2, d2, e2, f2, g2, h2 \in 0 .. 1 :
        /\ IsByteOf(n, a2, b2, c2, d2, e2, f2, g2, h2)
        /\ HasBits(n, a2, b2, c2, d2, e2, f2, g2, h2)
  BY Digits
<1>3. \A w \in Weights : ~(Bit(m, w) = 1 /\ Bit(n, w) = 1)
  BY BitsDef
<1>4. /\ ~(a1 = 1 /\ a2 = 1) /\ ~(b1 = 1 /\ b2 = 1) /\ ~(c1 = 1 /\ c2 = 1)
      /\ ~(d1 = 1 /\ d2 = 1) /\ ~(e1 = 1 /\ e2 = 1) /\ ~(f1 = 1 /\ f2 = 1)
      /\ ~(g1 = 1 /\ g2 = 1) /\ ~(h1 = 1 /\ h2 = 1)
  BY <1>1, <1>2, <1>3 DEF HasBits, Weights
<1>5. /\ a1 + a2 \in 0 .. 1 /\ b1 + b2 \in 0 .. 1 /\ c1 + c2 \in 0 .. 1
      /\ d1 + d2 \in 0 .. 1 /\ e1 + e2 \in 0 .. 1 /\ f1 + f2 \in 0 .. 1
      /\ g1 + g2 \in 0 .. 1 /\ h1 + h2 \in 0 .. 1
  BY <1>4
<1>6. IsByteOf(m + n, a1 + a2, b1 + b2, c1 + c2, d1 + d2,
                      e1 + e2, f1 + f2, g1 + g2, h1 + h2)
  BY <1>1, <1>2 DEF IsByteOf
<1>7. /\ m + n \in Bytes
      /\ HasBits(m + n, a1 + a2, b1 + b2, c1 + c2, d1 + d2,
                        e1 + e2, f1 + f2, g1 + g2, h1 + h2)
  BY <1>5, <1>6, Composed, Zenon
<1>8. \A w \in Weights : Bit(m + n, w) = 1 <=> Bit(m, w) = 1 \/ Bit(n, w) = 1
  BY <1>1, <1>2, <1>5, <1>7 DEF HasBits, Weights
<1> QED
  BY <1>7, <1>8, BitsDef

-----------------------------------------------------------------------------
(* The loop of get_settings                                                *)

\* Induction over the natural numbers, for a set of them.
LEMMA Counting ==
  ASSUME NEW T, 0 \in T, \A n \in Nat : n \in T => n + 1 \in T
  PROVE  Nat \subseteq T
<1> DEFINE Rest == Nat \ T
           R == OpToRel(<, Nat)
<1>1. SUFFICES ASSUME Rest # {} PROVE FALSE
  OBVIOUS
<1>2. IsWellFoundedOn(R, Nat)
  BY NatLessThanWellFounded
<1>3. \A m, n \in Nat : n < m => <<n, m>> \in R
  BY DEF OpToRel
<1> HIDE DEF R
<1>4. Rest \subseteq Nat
  OBVIOUS
<1>5. PICK m \in Rest : \A n \in Rest : <<n, m>> \notin R
  <2> HIDE DEF Rest
  <2> QED
    BY <1>1, <1>2, <1>4, WFMin
<1>6. m \in Nat /\ m # 0 /\ m - 1 \in Nat /\ m - 1 < m /\ m = (m - 1) + 1
  BY <1>5
<1>7. m - 1 \notin T
  BY <1>5, <1>6
<1>8. m - 1 \in Rest
  BY <1>6, <1>7
<1> QED
  BY <1>3, <1>5, <1>6, <1>8

Lists == SUBSET Members
Chosen(s) == CHOOSE m \in s : TRUE

LEMMA ListsFinite ==
  \A s \in Lists : IsFiniteSet(s) /\ Cardinality(s) \in Nat /\ s \subseteq Bytes
<1>1. Members \subseteq Bytes
  BY DEF Members, Flags, ALLOW_CHANGE_MK, LISTING_WITHOUT_MK, CREATE_DELETE_WITHOUT_MK,
         CONFIGURATION_CHANGEABLE, ChangeKeyMembers, FACTORY_DEFAULT, Bytes
<1>2. IsFiniteSet(Bytes)
  <2>1. 0 \in Int /\ 255 \in Int
    OBVIOUS
  <2> QED
    BY <2>1, FS_Interval DEF Bytes
<1> QED
  BY <1>1, <1>2, FS_Subset, FS_CardinalityType DEF Lists

\* Taking the chosen member away makes a list shorter by one.
LEMMA Shorter ==
  ASSUME NEW s \in Lists, s # {}
  PROVE  LET m == Chosen(s) IN
         /\ m \in s /\ m \in Bytes
         /\ s \ {m} \in Lists
         /\ Cardinality(s \ {m}) = Cardinality(s) - 1
<1>1. Chosen(s) \in s
  BY DEF Chosen
<1> QED
  BY <1>1, ListsFinite, FS_RemoveElement DEF Lists

Upto(n) == {s \in Lists : Cardinality(s) <= n}
Body(f, s) == IF s = {} THEN 0 ELSE Chosen(s) + f[s \ {Chosen(s)}]
Sums(f, n) == f = [s \in Upto(n) |-> Body(f, s)]

\* There is a function that adds up the lists of any length, so there is one for all.
LEMMA SumsExist == \A n \in Nat : \E f : Sums(f, n)
<1> DEFINE T == {n \in Nat : \E f : Sums(f, n)}
<1>1. 0 \in T
  <2> DEFINE f == [s \in Upto(0) |-> 0]
  <2>1. Upto(0) \subseteq {{}}
    BY ListsFinite, FS_EmptySet DEF Upto
  <2>2. \A s \in Upto(0) : Body(f, s) = 0
    BY <2>1 DEF Body
  <2>3. Sums(f, 0)
    BY <2>2 DEF Sums
  <2> QED
    BY <2>3
<1>2. ASSUME NEW n \in Nat, n \in T PROVE n + 1 \in T
  <2>1. PICK g : Sums(g, n)
    BY <1>2
  <2> DEFINE f == [s \in Upto(n + 1) |-> Body(g, s)]
  <2>2. Upto(n) \subseteq Upto(n + 1)
    BY ListsFinite DEF Upto
  <2>3. \A s \in Upto(n) : f[s] = g[s]
    BY <2>1, <2>2 DEF Sums
  <2>4. ASSUME NEW s \in Upto(n + 1) PROVE Body(f, s) = Body(g, s)
    <3>1. CASE s = {}
      BY <3>1 DEF Body
    <3>2. CASE s # {}
      <4>1. s \ {Chosen(s)} \in Upto(n)
        BY <3>2, Shorter, ListsFinite DEF Upto
      <4>2. f[s \ {Chosen(s)}] = g[s \ {Chosen(s)}]
        BY <2>3, <4>1
      <4> QED
        BY <4>2 DEF Body
    <3> QED
      BY <3>1, <3>2
  <2>5. Sums(f, n + 1)
    BY <2>4 DEF Sums
  <2> HIDE DEF f
  <2> QED
    BY <2>5
<1> HIDE DEF T
<1>3. Nat \subseteq T
  BY <1>1, <1>2, Counting
<1> QED
  BY <1>3 DEF T

LEMMA TotalBody == \A s \in Lists : Total[s] = Body(Total, s)
<1>1. Total = CHOOSE f : f = [s \in Lists |-> Body(f, s)]
  BY DEF Total, Lists, Body, Chosen
<1>2. PICK n \in Nat : Upto(n) = Lists
  <2>1. Members \in Lists
    BY DEF Lists
  <2>2. PICK n \in Nat : n = Cardinality(Members)
    BY <2>1, ListsFinite
  <2>3. \A s \in Lists : Cardinality(s) <= n
    BY <2>1, <2>2, ListsFinite, FS_Subset DEF Lists
  <2>4. Upto(n) = Lists
    BY <2>3 DEF Upto
  <2> QED
    BY <2>4
<1>3. \E f : f = [s \in Lists |-> Body(f, s)]
  BY <1>2, SumsExist DEF Sums
<1>4. Total = [s \in Lists |-> Body(Total, s)]
  BY <1>1, <1>3
<1> QED
  BY <1>4

\* The sum of a list is a number, whatever it names.
LEMMA TotalTyped == \A s \in Lists : Total[s] \in Nat
<1> DEFINE T == {n \in Nat : \A s \in Lists : Cardinality(s) = n => Total[s] \in Nat}
<1>1. 0 \in T
  <2>1. \A s \in Lists : Cardinality(s) = 0 => s = {}
    BY ListsFinite, FS_EmptySet
  <2>2. \A s \in Lists : s = {} => Total[s] = 0
    BY TotalBody DEF Body
  <2> QED
    BY <2>1, <2>2
<1>2. ASSUME NEW n \in Nat, n \in T PROVE n + 1 \in T
  <2> SUFFICES ASSUME NEW s \in Lists, Cardinality(s) = n + 1 PROVE Total[s] \in Nat
    OBVIOUS
  <2>1. s # {}
    BY FS_EmptySet
  <2>2. /\ Chosen(s) \in Bytes /\ s \ {Chosen(s)} \in Lists
        /\ Cardinality(s \ {Chosen(s)}) = n
    BY <2>1, Shorter
  <2>3. Total[s \ {Chosen(s)}] \in Nat
    BY <1>2, <2>2
  <2>4. Total[s] = Chosen(s) + Total[s \ {Chosen(s)}]
    BY <2>1, TotalBody DEF Body
  <2> QED
    BY <2>2, <2>3, <2>4 DEF Bytes
<1> HIDE DEF T
<1>3. Nat \subseteq T
  BY <1>1, <1>2, Counting
<1> QED
  BY <1>3, ListsFinite DEF T

-----------------------------------------------------------------------------
(* Lists without overlap                                                   *)

AllBits(s) == UNION {Bits(m) : m \in s}

\* As long as no two members have a bit in common the sum is a byte with the bits of
\* them all: nothing is carried and nothing is cut off.
LEMMA ProperSum ==
  \A s \in Lists : Proper(s) => Total[s] \in Bytes /\ Bits(Total[s]) = AllBits(s)
<1> DEFINE Right(s) == Proper(s) => Total[s] \in Bytes /\ Bits(Total[s]) = AllBits(s)
           T == {n \in Nat : \A s \in Lists : Cardinality(s) = n => Right(s)}
<1>1. 0 \in T
  <2>1. \A s \in Lists : Cardinality(s) = 0 => s = {}
    BY ListsFinite, FS_EmptySet
  <2>2. \A s \in Lists : s = {} => Total[s] = 0
    BY TotalBody DEF Body
  <2>3. 0 \in Bytes /\ Bits(0) = {}
    <3>1. \A w \in Weights : Bit(0, w) = 0
      BY DEF Weights, Bit
    <3>2. 0 \in Bytes
      BY DEF Bytes
    <3> QED
      BY <3>1, <3>2, BitsDef
  <2>4. AllBits({}) = {}
    BY DEF AllBits
  <2> QED
    BY <2>1, <2>2, <2>3, <2>4
<1>2. ASSUME NEW n \in Nat, n \in T PROVE n + 1 \in T
  <2> SUFFICES ASSUME NEW s \in Lists, Cardinality(s) = n + 1, Proper(s)
               PROVE  Total[s] \in Bytes /\ Bits(Total[s]) = AllBits(s)
    OBVIOUS
  <2> DEFINE m == Chosen(s)
             rest == s \ {m}
  <2>1. s # {}
    BY FS_EmptySet
  <2>2. m \in s /\ m \in Bytes /\ rest \in Lists /\ Cardinality(rest) = n
    BY <2>1, Shorter
  <2>3. Total[s] = m + Total[rest]
    BY <2>1, TotalBody DEF Body
  <2>4. Proper(rest)
    BY DEF Proper
  <2>5. Right(rest)
    BY <1>2, <2>2
  <2> HIDE DEF m
  <2>6. Bits(m) \cap AllBits(rest) = {}
    BY <2>2 DEF Proper, AllBits
  <2>7. AllBits(s) = Bits(m) \cup AllBits(rest)
    BY <2>2 DEF AllBits
  <2> HIDE DEF rest
  <2>8. Total[rest] \in Bytes /\ Bits(Total[rest]) = AllBits(rest)
    BY <2>4, <2>5
  <2>9. Bits(m) \cap Bits(Total[rest]) = {}
    BY <2>6, <2>8
  <2> QED
    BY <2>2, <2>3, <2>7, <2>8, <2>9, BitsAdd
<1> HIDE DEF T
<1>3. Nat \subseteq T
  BY <1>1, <1>2, Counting
<1> QED
  BY <1>3, ListsFinite DEF T

\* What get_settings makes of any list is a byte; of one without overlap it has the bits.
LEMMA GetSettingsByte ==
  ASSUME NEW s \in Lists
  PROVE  /\ GetSettings(s) \in Bytes
         /\ Proper(s) => Bits(GetSettings(s)) = AllBits(s)
<1>1. Total[s] \in Nat
  BY TotalTyped
<1>2. GetSettings(s) \in Bytes
  BY <1>1 DEF GetSettings, Bytes
<1>3. Total[s] \in Bytes => GetSettings(s) = Total[s]
  BY DEF GetSettings, Bytes
<1> QED
  BY <1>2, <1>3, ProperSum

-----------------------------------------------------------------------------
(* The inductive invariant                                                 *)

\* The card has the list that was last written, whatever it names, and the key type and
\* number of keys of create_application.
Written ==
  /\ sent # None => card.settings = GetSettings(sent)
  /\ card # None => card.keys = PackKeys(card.count, card.type) /\ card.count <= 14

IInv == TypeOK /\ Written

LEMMA InitEstablishes == Init => IInv
  BY DEF Init, IInv, TypeOK, Written

LEMMA PackTyped ==
  ASSUME NEW count \in KeyCounts, NEW type \in KeyTypes, count <= 14
  PROVE  PackKeys(count, type) \in 0 .. 255
<1>1. count \in Nat /\ type \in {0, 64, 128}
  BY SettingsAssumption
<1> QED
  BY <1>1 DEF PackKeys

LEMMA CreateApplicationKeeps ==
  ASSUME IInv, NEW type \in KeyTypes, NEW count \in KeyCounts,
         CreateApplication(type, count)
  PROVE  IInv'
<1> DEFINE new == [settings |-> GetSettings(list), keys |-> PackKeys(count, type),
                   type |-> type, count |-> count]
<1>1. /\ list \in Lists /\ count <= 14
      /\ card' = new /\ sent' = list /\ list' = list
  BY DEF IInv, TypeOK, Lists, CreateApplication
<1>2. GetSettings(list) \in 0 .. 255
  BY <1>1, GetSettingsByte DEF Bytes
<1>3. PackKeys(count, type) \in 0 .. 255
  BY <1>1, PackTyped
<1>4. TypeOK'
  BY <1>1, <1>2, <1>3 DEF TypeOK, Lists
<1>5. Written'
  BY <1>1 DEF Written
<1> QED
  BY <1>4, <1>5 DEF IInv

LEMMA ChangeKeySettingsKeeps ==
  ASSUME IInv, ChangeKeySettings
  PROVE  IInv'
<1> DEFINE new == [card EXCEPT !.settings = GetSettings(list)]
<1>1. /\ list \in Lists /\ card # None
      /\ card \in [settings : 0 .. 255, keys : 0 .. 255, type : KeyTypes,
                   count : KeyCounts]
      /\ card' = new /\ sent' = list /\ list' = list
  BY DEF IInv, TypeOK, Lists, ChangeKeySettings
<1>2. GetSettings(list) \in 0 .. 255
  BY <1>1, GetSettingsByte DEF Bytes
<1>3. /\ new \in [settings : 0 .. 255, keys : 0 .. 255, type : KeyTypes,
                  count : KeyCounts]
      /\ new.settings = GetSettings(list)
      /\ new.keys = card.keys /\ new.type = card.type /\ new.count = card.count
  BY <1>1, <1>2
<1> HIDE DEF new
<1>4. TypeOK'
  BY <1>1, <1>3 DEF TypeOK, Lists
<1>5. Written'
  BY <1>1, <1>3 DEF IInv, Written
<1> QED
  BY <1>4, <1>5 DEF IInv

\* What the caller does with its list changes nothing on the card.
LEMMA ListKeeps ==
  ASSUME IInv, list' \in Lists \cup {None}, UNCHANGED <<card, sent>>
  PROVE  IInv'
  BY DEF IInv, TypeOK, Written, Lists

LEMMA NextKeeps == IInv /\ [Next]_vars => IInv'
<1> SUFFICES ASSUME IInv, [Next]_vars PROVE IInv'
  OBVIOUS
<1>1. CASE \E flags \in SUBSET Flags, p \in Policies : Build(flags \cup {p})
  <2>1. PICK flags \in SUBSET Flags, p \in Policies : Build(flags \cup {p})
    BY <1>1
  <2>2. flags \cup {p} \in Lists
    BY SettingsAssumption DEF Lists, Members
  <2> QED
    BY <2>1, <2>2, ListKeeps DEF Build
<1>2. CASE \E type \in KeyTypes, count \in KeyCounts : CreateApplication(type, count)
  BY <1>2, CreateApplicationKeeps
<1>3. CASE GetKeySetting
  BY <1>3, ListKeeps DEF GetKeySetting, ParseSettings, Lists
<1>4. CASE \E m \in Toggled : AddMember(m) \/ RemoveMember(m)
  <2>1. PICK m \in Toggled : AddMember(m) \/ RemoveMember(m)
    BY <1>4
  <2>2. list \in Lists /\ m \in Members
    BY <2>1, SettingsAssumption DEF IInv, TypeOK, Lists, AddMember, RemoveMember
  <2> QED
    BY <2>1, <2>2, ListKeeps DEF AddMember, RemoveMember, Lists
<1>5. CASE ChangeKeySettings
  BY <1>5, ChangeKeySettingsKeeps
<1>6. CASE UNCHANGED vars
  BY <1>6 DEF vars, IInv, TypeOK, Written
<1> QED
  BY <1>1, <1>2, <1>3, <1>4, <1>5, <1>6 DEF Next

\* The invariant holds for every key type and number of keys, and for every set of
\* members the caller's lists are made from.
THEOREM InvCorrect == Spec => []IInv
  BY InitEstablishes, NextKeeps, PTL DEF Spec

\* Settings, key type and number of keys always fit in their byte, whatever lists are
\* written: get_settings cuts a sum that overflows.
THEOREM TypeCorrect == Spec => []TypeOK
<1>1. IInv => TypeOK
  BY DEF IInv
<1> QED
  BY <1>1, InvCorrect, PTL

\* A list of any length and with any policies arrives as its bits, as long as no two of
\* its members overlap.
THEOREM ProperListArrivesCorrect == Spec => []ProperListArrives
<1>1. IInv => ProperListArrives
  BY GetSettingsByte DEF IInv, TypeOK, Written, ProperListArrives, AllBits, Lists
<1> QED
  BY <1>1, InvCorrect, PTL

-----------------------------------------------------------------------------
(* What is read back                                                       *)

\* A flag has one bit of its own.
LEMMA FlagBits == \A m \in Flags : m \in Bytes /\ Bits(m) = {m} /\ m \in Weights
<1>1. \A m \in Flags : m \in Bytes /\ m \in Weights
  BY DEF Flags, ALLOW_CHANGE_MK, LISTING_WITHOUT_MK, CREATE_DELETE_WITHOUT_MK,
         CONFIGURATION_CHANGEABLE, Bytes, Weights
<1>2. \A m, w \in Weights : Bit(m, w) = 1 <=> w = m
  BY DEF Weights, Bit
<1> QED
  BY <1>1, <1>2, BitsDef

\* The policy in a byte: what is left without the flags' bits.
LEMMA PolicyBits ==
  ASSUME NEW n \in Bytes, n >= 16
  PROVE  LET top == n - (n % 16) IN
         top \in Members /\ Bits(n) \cap Bits(top) # {}
<1> DEFINE top == n - (n % 16)
           k == n \div 16
<1>1. k \in 1 .. 15 /\ top = 16 * k /\ top \in Bytes /\ top >= 16 /\ top % 16 = 0
  BY DEF Bytes
<1>2. top \in Members
  BY <1>1 DEF Members, ChangeKeyMembers
<1>3. /\ Bit(top, 16) = Bit(n, 16) /\ Bit(top, 32) = Bit(n, 32)
      /\ Bit(top, 64) = Bit(n, 64) /\ Bit(top, 128) = Bit(n, 128)
  BY DEF Bytes, Bit
<1> HIDE DEF top
<1>4. Bit(top, 16) = 1 \/ Bit(top, 32) = 1 \/ Bit(top, 64) = 1 \/ Bit(top, 128) = 1
  BY <1>1 DEF Bytes, Bit
<1>5. PICK w \in Weights : Bit(top, w) = 1 /\ Bit(n, w) = 1
  BY <1>3, <1>4 DEF Weights
<1>6. w \in Bits(n) /\ w \in Bits(top)
  BY <1>1, <1>5, BitsDef
<1> QED
  BY <1>2, <1>6 DEF top

\* What get_key_setting returns is what the card has, for every byte that any lists, with
\* overlap or without, can have left there.
THEOREM FlagsReportedCorrect == Spec => FlagsReported
<1> DEFINE Reported ==
      /\ \A m \in Flags : m \in list' <=> Bits(m) \subseteq Bits(card.settings)
      /\ card.settings >= 16 => card.settings - (card.settings % 16) \in list'
      /\ card.keys % 16 = card.count
      /\ card.keys - (card.keys % 16) = card.type
<1>1. ASSUME IInv, GetKeySetting PROVE Reported
  <2>1. /\ card.settings \in Bytes
        /\ card.type \in {0, 64, 128} /\ card.count \in Nat /\ card.count <= 14
        /\ card.keys = card.count + card.type
        /\ list' = ParseSettings(card.settings)
    BY <1>1, SettingsAssumption
    DEF IInv, TypeOK, Written, GetKeySetting, PackKeys, Bytes
  <2>2. \A m \in Flags : m \in list' <=> Bits(m) \subseteq Bits(card.settings)
    BY <2>1, FlagBits DEF ParseSettings, Members
  <2>3. card.settings >= 16 => card.settings - (card.settings % 16) \in list'
    BY <2>1, PolicyBits DEF ParseSettings
  <2>4. card.keys % 16 = card.count /\ card.keys - (card.keys % 16) = card.type
    BY <2>1
  <2> QED
    BY <2>2, <2>3, <2>4
<1>2. IInv /\ [Next]_vars => [GetKeySetting => Reported]_vars
  BY <1>1
<1> QED
  BY <1>2, InvCorrect, PTL DEF Spec, FlagsReported

=============================================================================
