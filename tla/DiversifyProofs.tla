-------------------------- MODULE DiversifyProofs --------------------------
(***************************************************************************)
(* What holds of Diversify for lists, data and blocks of any length, and   *)
(* for any number of calls.                                                *)
(***************************************************************************)
EXTENDS Diversify, TLAPS

-----------------------------------------------------------------------------
(* Padding                                                                 *)

\* The bytes PadTo appends, for n bytes.
Padding(n) == [i \in 1 .. n |-> IF i = 1 THEN Mark ELSE Zero]

LEMMA PaddingTyped ==
  ASSUME NEW n \in Nat
  PROVE  /\ Padding(n) \in Seq(Bytes)
         /\ Len(Padding(n)) = n
         /\ n > 0 => Padding(n)[1] = Mark
         /\ \A i \in 2 .. n : Padding(n)[i] = Zero
  BY DiversifyAssumption DEF Padding

\* Data that is long enough stays as it is.
LEMMA LongStays ==
  ASSUME NEW data \in Seq(Bytes), NEW n \in Nat, n <= Len(data)
  PROVE  PadTo(data, n) = data
<1>1. 1 .. n - Len(data) = 1 .. 0
  OBVIOUS
<1>2. PadTo(data, n) = data \o [i \in 1 .. 0 |-> IF i = 1 THEN Mark ELSE Zero]
  BY <1>1 DEF PadTo
<1>3. [i \in 1 .. 0 |-> IF i = 1 THEN Mark ELSE Zero] = <<>>
  OBVIOUS
<1> QED
  BY <1>2, <1>3

\* Other data is followed by a mark and zeros.
LEMMA ShortPadded ==
  ASSUME NEW data \in Seq(Bytes), NEW n \in Nat, Len(data) < n
  PROVE  /\ PadTo(data, n) \in Seq(Bytes)
         /\ Len(PadTo(data, n)) = n
         /\ \A i \in 1 .. Len(data) : PadTo(data, n)[i] = data[i]
         /\ PadTo(data, n)[Len(data) + 1] = Mark
         /\ \A i \in Len(data) + 2 .. n : PadTo(data, n)[i] = Zero
<1> DEFINE k == n - Len(data)
           p == Padding(k)
<1>1. k \in Nat /\ k > 0
  OBVIOUS
<1>2. p \in Seq(Bytes) /\ Len(p) = k /\ p[1] = Mark /\ \A i \in 2 .. k : p[i] = Zero
  BY <1>1, PaddingTyped
<1>3. PadTo(data, n) = data \o p
  BY DEF PadTo, Padding
<1> HIDE DEF p
<1>4. /\ data \o p \in Seq(Bytes)
      /\ Len(data \o p) = n
      /\ \A i \in 1 .. Len(data) : (data \o p)[i] = data[i]
      /\ \A i \in Len(data) + 1 .. n : (data \o p)[i] = p[i - Len(data)]
  BY <1>1, <1>2
<1>5. (data \o p)[Len(data) + 1] = p[1]
  BY <1>1, <1>4
<1>6. \A i \in Len(data) + 2 .. n : (data \o p)[i] = Zero
  BY <1>1, <1>2, <1>4
<1> QED
  BY <1>2, <1>3, <1>4, <1>5, <1>6

LEMMA PadTyped ==
  ASSUME NEW data \in Seq(Bytes), NEW n \in Nat
  PROVE  /\ PadTo(data, n) \in Seq(Bytes)
         /\ Len(PadTo(data, n)) >= n /\ Len(PadTo(data, n)) >= Len(data)
  BY LongStays, ShortPadded

\* Padding says where it begins: no two lists are padded to the same one.
LEMMA PadInjective ==
  ASSUME NEW a \in Seq(Bytes), NEW b \in Seq(Bytes), NEW m \in Nat, NEW n \in Nat,
         Len(a) < m, Len(b) < n, PadTo(a, m) = PadTo(b, n)
  PROVE  a = b
<1>1. m = n
  BY ShortPadded
<1>2. ASSUME NEW c \in Seq(Bytes), NEW d \in Seq(Bytes), Len(c) < Len(d), Len(d) < n,
             PadTo(c, n) = PadTo(d, n)
      PROVE  FALSE
  <2>1. Len(d) + 1 \in Len(c) + 2 .. n
    BY <1>2
  <2>2. PadTo(c, n)[Len(d) + 1] = Zero
    BY <1>2, <2>1, ShortPadded
  <2>3. PadTo(d, n)[Len(d) + 1] = Mark
    BY <1>2, ShortPadded
  <2> QED
    BY <1>2, <2>2, <2>3, DiversifyAssumption
<1>3. Len(a) = Len(b)
  <2>1. Len(a) \in Nat /\ Len(b) \in Nat
    OBVIOUS
  <2>2. ~(Len(a) < Len(b)) /\ ~(Len(b) < Len(a))
    BY <1>1, <1>2
  <2> QED
    BY <2>1, <2>2
<1>4. \A i \in 1 .. Len(a) : a[i] = b[i]
  BY <1>1, <1>3, ShortPadded
<1> QED
  BY <1>3, <1>4

-----------------------------------------------------------------------------
(* Blocks                                                                  *)

LEMMA Divide ==
  ASSUME NEW n \in Nat, NEW b \in Nat \ {0}
  PROVE  /\ n \div b \in Nat /\ n % b \in 0 .. b - 1
         /\ n = b * (n \div b) + (n % b)
OBVIOUS

LEMMA DivideUnique ==
  ASSUME NEW b \in Nat \ {0}, NEW q \in Nat, NEW r \in 0 .. b - 1
  PROVE  (b * q + r) \div b = q /\ (b * q + r) % b = r
OBVIOUS

\* Whole blocks stay, anything else grows.
LEMMA WholeBlocksFacts ==
  ASSUME NEW n \in Nat
  PROVE  /\ WholeBlocks(n) \in Nat
         /\ n % Block = 0 => WholeBlocks(n) = n
         /\ n % Block # 0 => WholeBlocks(n) > n
<1> DEFINE q == n \div Block
           r == n % Block
<1>1. Block \in Nat \ {0}
  BY DiversifyAssumption
<1>2. q \in Nat /\ r \in 0 .. Block - 1 /\ n = Block * q + r
  BY <1>1, Divide
<1> HIDE DEF q, r
<1>3. CASE r = 0
  <2>1. n + Block - 1 = Block * q + (Block - 1) /\ Block - 1 \in 0 .. Block - 1
    BY <1>1, <1>2, <1>3
  <2>2. (n + Block - 1) \div Block = q
    BY <1>1, <1>2, <2>1, DivideUnique
  <2>3. WholeBlocks(n) = n
    BY <1>1, <1>2, <1>3, <2>2 DEF WholeBlocks
  <2> QED
    BY <1>3, <2>3 DEF r
<1>4. CASE r > 0
  <2>1. n + Block - 1 = Block * (q + 1) + (r - 1) /\ r - 1 \in 0 .. Block - 1
    BY <1>1, <1>2, <1>4
  <2>2. (n + Block - 1) \div Block = q + 1
    BY <1>1, <1>2, <2>1, DivideUnique
  <2>3. WholeBlocks(n) = Block * q + Block
    BY <1>1, <1>2, <2>2 DEF WholeBlocks
  <2>4. Block * q + Block \in Nat /\ Block * q + Block > n
    BY <1>1, <1>2
  <2> QED
    BY <1>1, <1>2, <1>4, <2>3, <2>4 DEF r
<1> QED
  BY <1>1, <1>2, <1>3, <1>4

\* What goes into a key: the caller's data, marked and padded with the second subkey, or
\* as it is with the first.
LEMMA CmacInput ==
  ASSUME NEW data \in Seq(Bytes), NEW pad_to_32 \in BOOLEAN, NEW base
  PROVE  LET padded == PaddedInPlace(data, pad_to_32)
             cmac == CalculateCmac(base, padded, TooShort(data, pad_to_32))
         IN /\ cmac.base = base
            /\ \/ cmac.subkey = "k1" /\ cmac.data = data
               \/ cmac.subkey = "k2" /\ \E n \in Nat : Len(data) < n /\ cmac.data = PadTo(data, n)
<1> DEFINE padded == PaddedInPlace(data, pad_to_32)
           cmac == CalculateCmac(base, padded, TooShort(data, pad_to_32))
<1>1. cmac.base = base
  BY DEF CalculateCmac
<1>2. CASE TooShort(data, pad_to_32)
  <2>1. padded = PadTo(data, Full) /\ Len(data) < Full
    BY <1>2 DEF PaddedInPlace, TooShort
  <2>2. padded \in Seq(Bytes) /\ Len(padded) = Full
    BY <2>1, DiversifyAssumption, ShortPadded
  <2>3. cmac.data = PadTo(padded, WholeBlocks(Full)) /\ cmac.subkey = "k2"
    BY <1>2, <2>2 DEF CalculateCmac
  <2>4. PadTo(padded, WholeBlocks(Full)) = padded
    <3>1. WholeBlocks(Full) = Full
      BY DiversifyAssumption, WholeBlocksFacts
    <3> QED
      BY <2>2, <3>1, DiversifyAssumption, LongStays
  <2> QED
    BY <1>1, <2>1, <2>3, <2>4, DiversifyAssumption
<1>3. CASE ~TooShort(data, pad_to_32)
  <2>1. padded = data
    BY <1>3 DEF PaddedInPlace
  <2>2. /\ cmac.data = PadTo(data, WholeBlocks(Len(data)))
        /\ cmac.subkey = IF Len(data) % Block # 0 THEN "k2" ELSE "k1"
    BY <1>3, <2>1 DEF CalculateCmac
  <2>3. Len(data) \in Nat
    OBVIOUS
  <2>4. CASE Len(data) % Block = 0
    BY <1>1, <2>2, <2>3, <2>4, WholeBlocksFacts, LongStays
  <2>5. CASE Len(data) % Block # 0
    BY <1>1, <2>2, <2>3, <2>5, WholeBlocksFacts
  <2> QED
    BY <2>4, <2>5
<1> QED
  BY <1>2, <1>3

\* Two keys are the same only if base key and data are.
LEMMA KeysDiffer ==
  ASSUME NEW a \in Seq(Bytes), NEW b \in Seq(Bytes), NEW pad_to_32 \in BOOLEAN,
         NEW base1, NEW base2,
         CalculateCmac(base1, PaddedInPlace(a, pad_to_32), TooShort(a, pad_to_32)) =
           CalculateCmac(base2, PaddedInPlace(b, pad_to_32), TooShort(b, pad_to_32))
  PROVE  base1 = base2 /\ a = b
<1> DEFINE x == CalculateCmac(base1, PaddedInPlace(a, pad_to_32), TooShort(a, pad_to_32))
           y == CalculateCmac(base2, PaddedInPlace(b, pad_to_32), TooShort(b, pad_to_32))
<1>1. /\ x.base = base1
      /\ \/ x.subkey = "k1" /\ x.data = a
         \/ x.subkey = "k2" /\ \E n \in Nat : Len(a) < n /\ x.data = PadTo(a, n)
  BY CmacInput
<1>2. /\ y.base = base2
      /\ \/ y.subkey = "k1" /\ y.data = b
         \/ y.subkey = "k2" /\ \E n \in Nat : Len(b) < n /\ y.data = PadTo(b, n)
  BY CmacInput
<1>3. x = y
  OBVIOUS
<1> HIDE DEF x, y
<1>4. CASE x.subkey = "k1"
  BY <1>1, <1>2, <1>3, <1>4
<1>5. CASE x.subkey = "k2"
  <2>1. PICK m \in Nat : Len(a) < m /\ x.data = PadTo(a, m)
    BY <1>1, <1>5
  <2>2. PICK n \in Nat : Len(b) < n /\ y.data = PadTo(b, n)
    BY <1>2, <1>3, <1>5
  <2>3. PadTo(a, m) = PadTo(b, n)
    BY <1>3, <2>1, <2>2
  <2>4. a = b
    BY <2>1, <2>2, <2>3, PadInjective
  <2> QED
    BY <1>1, <1>2, <1>3, <2>4
<1> QED
  BY <1>1, <1>4, <1>5

-----------------------------------------------------------------------------
(* The inductive invariant                                                 *)

Keys == [base : BaseKeys, subkey : {"k1", "k2"}, data : Seq(Bytes)] \cup {NoKey}
CallRecords == [list : Lists, base : BaseKeys, pad_to_32 : BOOLEAN, key : Keys]

Typed ==
  /\ meant \in [Lists -> Seq(Bytes)]
  /\ contents \in [Lists -> Seq(Bytes)]
  /\ derived \in Seq(CallRecords)

KeyOf(base, data, pad_to_32) ==
  KeyFor(base, PaddedInPlace(data, pad_to_32), TooShort(data, pad_to_32))

\* The key of a list no earlier call padded comes from what the caller put into it.
KeysKnown ==
  \A c \in Calls :
    Fresh(c) =>
      derived[c].key = KeyOf(derived[c].base, meant[derived[c].list], derived[c].pad_to_32)

IInv == Typed /\ PaddedOnce /\ KeysKnown

LEMMA KeyTyped ==
  ASSUME NEW base \in BaseKeys, NEW data \in Seq(Bytes), NEW pad_to_32 \in BOOLEAN
  PROVE  /\ PaddedInPlace(data, pad_to_32) \in Seq(Bytes)
         /\ KeyOf(base, data, pad_to_32) \in Keys
<1>1. PaddedInPlace(data, pad_to_32) \in Seq(Bytes)
  BY DiversifyAssumption, PadTyped DEF PaddedInPlace
<1> DEFINE d == PaddedInPlace(data, pad_to_32)
<1> HIDE DEF d
<1>2. d \in Seq(Bytes) /\ WholeBlocks(Len(d)) \in Nat
  BY <1>1, WholeBlocksFacts DEF d
<1>3. PadTo(d, WholeBlocks(Len(d))) \in Seq(Bytes)
  BY <1>2, PadTyped
<1>4. ASSUME NEW t \in BOOLEAN
      PROVE  CalculateCmac(base, d, t) \in
               [base : BaseKeys, subkey : {"k1", "k2"}, data : Seq(Bytes)]
  BY <1>3 DEF CalculateCmac
<1>5. TooShort(data, pad_to_32) \in BOOLEAN
  BY DEF TooShort
<1>6. KeyFor(base, d, TooShort(data, pad_to_32)) \in Keys
  BY <1>4, <1>5 DEF KeyFor, Keys
<1> QED
  BY <1>1, <1>6 DEF KeyOf, d

\* A list is padded by the first call that asks for it, and by no other.
LEMMA PaddedAgain ==
  ASSUME NEW data \in Seq(Bytes), NEW pad_to_32 \in BOOLEAN
  PROVE  /\ PaddedInPlace(data, pad_to_32) = IF pad_to_32 THEN PadTo(data, Full) ELSE data
         /\ PaddedInPlace(PadTo(data, Full), pad_to_32) = PadTo(data, Full)
<1>1. Full \in Nat /\ Len(data) \in Nat
  BY DiversifyAssumption
<1>2. PaddedInPlace(data, pad_to_32) = IF pad_to_32 THEN PadTo(data, Full) ELSE data
  BY <1>1, LongStays DEF PaddedInPlace, TooShort
<1>3. ~TooShort(PadTo(data, Full), pad_to_32)
  BY <1>1, PadTyped DEF TooShort
<1> QED
  BY <1>2, <1>3 DEF PaddedInPlace

LEMMA InitEstablishes == Init => IInv
  BY DiversifyAssumption DEF Init, IInv, Typed, PaddedOnce, KeysKnown, Calls

LEMMA CallKeeps ==
  ASSUME IInv, NEW l \in Lists, NEW base \in BaseKeys, NEW pad_to_32 \in BOOLEAN,
         DiversifyKey(l, base, pad_to_32)
  PROVE  IInv'
<1> DEFINE n == Len(derived)
           key == KeyOf(base, contents[l], pad_to_32)
           made == [list |-> l, base |-> base, pad_to_32 |-> pad_to_32, key |-> key]
           before(k) == \E c \in Calls : derived[c].list = k /\ derived[c].pad_to_32
<1> USE DEF IInv, Typed
<1>1. contents[l] \in Seq(Bytes) /\ meant[l] \in Seq(Bytes)
  OBVIOUS
<1>2. /\ contents' = [contents EXCEPT ![l] = PaddedInPlace(contents[l], pad_to_32)]
      /\ derived' = Append(derived, made)
      /\ meant' = meant
  BY DEF DiversifyKey, KeyOf
<1>3. made \in CallRecords
  BY <1>1, KeyTyped DEF CallRecords
<1> HIDE DEF key
<1>4. made.list = l /\ made.base = base /\ made.pad_to_32 = pad_to_32 /\ made.key = key
  OBVIOUS
<1> HIDE DEF made
<1>5. /\ n \in Nat
      /\ derived' \in Seq(CallRecords)
      /\ Calls = 1 .. n
      /\ Calls' = 1 .. n + 1
      /\ derived'[n + 1] = made
      /\ \A c \in 1 .. n : derived'[c] = derived[c]
  BY <1>2, <1>3 DEF Calls
<1>6. Typed'
  BY <1>1, <1>2, <1>5, KeyTyped
<1>7. PaddedOnce'
  <2> SUFFICES ASSUME NEW k \in Lists
               PROVE  contents'[k] = IF before(k)' THEN PadTo(meant[k], Full) ELSE meant[k]
    BY <1>2 DEF PaddedOnce
  <2>1. contents[k] = IF before(k) THEN PadTo(meant[k], Full) ELSE meant[k]
    BY DEF PaddedOnce
  <2>2. before(k)' <=> before(k) \/ (k = l /\ pad_to_32)
    <3>1. before(k)' <=> \E c \in 1 .. n + 1 : derived'[c].list = k /\ derived'[c].pad_to_32
      BY <1>5
    <3>2. \A c \in 1 .. n + 1 : c \in 1 .. n \/ c = n + 1
      BY <1>5
    <3>3. before(k)' <=>
            (\E c \in 1 .. n : derived'[c].list = k /\ derived'[c].pad_to_32)
              \/ (made.list = k /\ made.pad_to_32)
      BY <1>5, <3>1, <3>2
    <3> QED
      BY <1>4, <1>5, <3>3
  <2> HIDE DEF before
  <2>3. CASE k # l
    BY <1>2, <2>1, <2>2, <2>3
  <2>4. CASE k = l
    <3>1. contents'[k] = PaddedInPlace(contents[k], pad_to_32)
      BY <1>2, <2>4
    <3>2. meant[k] \in Seq(Bytes)
      OBVIOUS
    <3> QED
      BY <2>1, <2>2, <2>4, <3>1, <3>2, PaddedAgain
  <2> QED
    BY <2>3, <2>4
<1>8. KeysKnown'
  <2> SUFFICES ASSUME NEW c \in 1 .. n + 1, Fresh(c)'
               PROVE  derived'[c].key = KeyOf(derived'[c].base, meant[derived'[c].list],
                                              derived'[c].pad_to_32)
    BY <1>2, <1>5 DEF KeysKnown
  <2>1. \A b \in 1 .. c - 1 :
          derived[b].list = derived'[c].list => ~derived[b].pad_to_32
    <3>1. \A b \in 1 .. c - 1 :
            derived'[b].list = derived'[c].list => ~derived'[b].pad_to_32
      BY DEF Fresh
    <3>2. \A b \in 1 .. c - 1 : b \in 1 .. n
      BY <1>5
    <3> QED
      BY <1>5, <3>1, <3>2
  <2>2. CASE c \in 1 .. n
    BY <1>5, <2>1, <2>2 DEF KeysKnown, Fresh
  <2>3. CASE c = n + 1
    <3>1. derived'[c] = made /\ c - 1 = n
      BY <1>5, <2>3
    <3>2. \A b \in 1 .. n : derived[b].list = l => ~derived[b].pad_to_32
      BY <1>4, <2>1, <3>1
    <3>3. ~before(l)
      BY <1>5, <3>2
    <3>4. contents[l] = meant[l]
      BY <3>3 DEF PaddedOnce
    <3> QED
      BY <1>4, <3>1, <3>4 DEF key
  <2> QED
    BY <1>5, <2>2, <2>3
<1> QED
  BY <1>6, <1>7, <1>8

LEMMA StutterKeeps == IInv /\ UNCHANGED vars => IInv'
  BY DEF vars, IInv, Typed, PaddedOnce, KeysKnown, Calls, Fresh

THEOREM InvCorrect == Spec => []IInv
<1>1. IInv /\ [Next]_vars => IInv'
  BY CallKeeps, StutterKeeps DEF Next
<1> QED
  BY InitEstablishes, <1>1, PTL DEF Spec

-----------------------------------------------------------------------------
(* Theorems                                                                *)

\* A list of the caller is padded at most once, whatever calls it was in, and only by a
\* call that asks for it (diversify_key's += on its argument).
THEOREM PaddedOnceCorrect == Spec => []PaddedOnce
<1>1. IInv => PaddedOnce
  BY DEF IInv
<1> QED
  BY <1>1, InvCorrect, PTL

\* Unless a list was padded before, equal keys come from equal base keys and equal data:
\* the padding of the call, the padding of the CMAC and its choice of a subkey together
\* tell any two lists of bytes apart.
THEOREM UniqueKeysCorrect == Spec => []UniqueKeys
<1>1. IInv => UniqueKeys
  <2> SUFFICES ASSUME IInv, NEW b \in Calls, NEW c \in Calls,
                      Fresh(b), Fresh(c),
                      derived[b].pad_to_32 = derived[c].pad_to_32,
                      derived[b].key = derived[c].key,
                      derived[b].key # NoKey
               PROVE  /\ derived[b].base = derived[c].base
                      /\ meant[derived[b].list] = meant[derived[c].list]
    BY DEF UniqueKeys
  <2> DEFINE x == meant[derived[b].list]
             y == meant[derived[c].list]
             p == derived[b].pad_to_32
  <2>1. derived[b] \in CallRecords /\ derived[c] \in CallRecords
    BY DEF IInv, Typed, Calls
  <2>2. x \in Seq(Bytes) /\ y \in Seq(Bytes) /\ p \in BOOLEAN
    BY <2>1 DEF IInv, Typed, CallRecords
  <2>3. /\ derived[b].key = KeyOf(derived[b].base, x, p)
        /\ derived[c].key = KeyOf(derived[c].base, y, p)
    BY DEF IInv, KeysKnown
  <2>4. /\ derived[b].key =
             CalculateCmac(derived[b].base, PaddedInPlace(x, p), TooShort(x, p))
        /\ derived[c].key =
             CalculateCmac(derived[c].base, PaddedInPlace(y, p), TooShort(y, p))
    BY <2>3 DEF KeyOf, KeyFor
  <2> HIDE DEF x, y, p
  <2>5. CalculateCmac(derived[b].base, PaddedInPlace(x, p), TooShort(x, p)) =
          CalculateCmac(derived[c].base, PaddedInPlace(y, p), TooShort(y, p))
    BY <2>4
  <2>6. derived[b].base = derived[c].base /\ x = y
    BY <2>2, <2>5, KeysDiffer
  <2> QED
    BY <2>6 DEF x, y
<1> QED
  BY <1>1, InvCorrect, PTL

\* The same information gives the same key, from whichever list it comes.
THEOREM SameKeyCorrect == Spec => []SameKeyFromFreshLists
<1>1. IInv => SameKeyFromFreshLists
  BY DEF IInv, KeysKnown, SameKeyFromFreshLists
<1> QED
  BY <1>1, InvCorrect, PTL

=============================================================================
