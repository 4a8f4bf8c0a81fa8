----------------------------- MODULE Diversify -----------------------------
(***************************************************************************)
(* diversify_key (src/src/desfire/diversify.py): a key for a card from a   *)
(* base key and a list of diversification data, which is padded where it   *)
(* lies.  The key is a CMAC (DESFireKey.calculate_cmac); two CMACs are     *)
(* taken to be equal only if base key, subkey and padded data are, which   *)
(* has an exception of one in 2^64.                                        *)
(***************************************************************************)
EXTENDS Naturals, Sequences, FiniteSets

CONSTANTS
  Lists,     \* list objects of the caller
  BaseKeys,
  Bytes,     \* what a list of the caller is made of
  Datas,     \* diversification data
  Zero,      \* the byte 0x00
  Mark,      \* the byte 0x80
  Block,     \* bytes of a cipher block
  Full,      \* how long the application note wants the data: 32
  MaxCalls   \* bound: calls

ASSUME DiversifyAssumption ==
  /\ Block \in Nat \ {0}
  /\ Full \in Nat /\ Full % Block = 0
  /\ Datas \subseteq Seq(Bytes)
  /\ Zero \in Bytes /\ Mark \in Bytes
  /\ Zero # Mark

VARIABLES
  contents,  \* what the lists hold
  meant,     \* what the caller put into them
  derived    \* the calls so far, in their order: arguments and key

vars == <<contents, meant, derived>>

Init ==
  /\ meant \in [Lists -> Datas]
  /\ contents = meant
  /\ derived = <<>>

\* 0x80 and zeros up to a length.
PadTo(data, n) ==
  data \o [i \in 1 .. n - Len(data) |-> IF i = 1 THEN Mark ELSE Zero]

WholeBlocks(n) == ((n + Block - 1) \div Block) * Block

\* Seeded bug: the same subkey whether or not the data was padded.
CmacOneSubkey(base, data, pre_padded) ==
  [base |-> base, subkey |-> "k1", data |-> PadTo(data, WholeBlocks(Len(data)))]

\* calculate_cmac: the subkey tells padded data from whole blocks.
CalculateCmac(base, data, pre_padded) ==
  [base |-> base,
   subkey |-> IF pre_padded \/ Len(data) % Block # 0 THEN "k2" ELSE "k1",
   data |-> PadTo(data, WholeBlocks(Len(data)))]

\* Nothing to encrypt, and no key comes out of it.
NoKey == <<>>

KeyFor(base, data, pre_padded) ==
  IF data = <<>> THEN NoKey ELSE CalculateCmac(base, data, pre_padded)

\* Seeded bug: data as long as the application note wants it is padded again.
TooShortOrFull(data, pad_to_32) == pad_to_32 /\ Len(data) <= Full

TooShort(data, pad_to_32) == pad_to_32 /\ Len(data) < Full

\* Seeded bug: data is always padded in place, with pad_to_32 or without.
AlwaysInPlace(data, pad_to_32) ==
  IF pad_to_32 THEN PadTo(data, Full) ELSE PadTo(data, WholeBlocks(Len(data)))

\* What the list holds after the call: += changes the caller's list.
PaddedInPlace(data, pad_to_32) ==
  IF TooShort(data, pad_to_32) THEN PadTo(data, Full) ELSE data

DiversifyKey(l, base, pad_to_32) ==
  LET data == PaddedInPlace(contents[l], pad_to_32)
      key == KeyFor(base, data, TooShort(contents[l], pad_to_32))
  IN /\ Len(derived) < MaxCalls
     /\ contents' = [contents EXCEPT ![l] = data]
     /\ derived' = Append(derived, [list |-> l, base |-> base, pad_to_32 |-> pad_to_32,
                                    key |-> key])
     /\ UNCHANGED meant

Next ==
  \E l \in Lists, base \in BaseKeys, pad_to_32 \in BOOLEAN :
    DiversifyKey(l, base, pad_to_32)

Spec == Init /\ [][Next]_vars

-----------------------------------------------------------------------------
(* Properties                                                              *)

Calls == DOMAIN derived

\* A list is padded at most once, and never when the caller asked for no padding.
PaddedOnce ==
  \A l \in Lists :
    contents[l] =
      IF \E c \in Calls : derived[c].list = l /\ derived[c].pad_to_32
      THEN PadTo(meant[l], Full) ELSE meant[l]

\* No call before this one was given its list and padded it.
Fresh(c) == \A b \in 1 .. c - 1 : derived[b].list = derived[c].list => ~derived[b].pad_to_32

\* Cards get different keys: data that differs, or another base key, gives another key,
\* as long as there is data and no list was padded before
\* (docs/key-diversification.md: "each card receives a unique key value").
UniqueKeys ==
  \A b, c \in Calls :
    /\ Fresh(b) /\ Fresh(c)
    /\ derived[b].pad_to_32 = derived[c].pad_to_32
    /\ derived[b].key = derived[c].key
    /\ derived[b].key # NoKey
    => /\ derived[b].base = derived[c].base
       /\ meant[derived[b].list] = meant[derived[c].list]

\* The same information gives the same key once more, from this list or another, as long
\* as no list was padded before.
SameKeyFromFreshLists ==
  \A b, c \in Calls :
    /\ Fresh(b) /\ Fresh(c)
    /\ derived[b].pad_to_32 = derived[c].pad_to_32
    /\ derived[b].base = derived[c].base
    /\ meant[derived[b].list] = meant[derived[c].list]
    => derived[b].key = derived[c].key

=============================================================================
