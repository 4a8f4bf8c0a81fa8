---------------------------- MODULE KeySettings ----------------------------
(***************************************************************************)
(* The key settings of an application between the caller's list, the byte  *)
(* it becomes (KeySettings.get_settings) and the list that is parsed from  *)
(* the byte of the card (KeySettings.parse_settings), and the methods of   *)
(* DESFire that carry them: create_application, get_key_setting and        *)
(* change_key_settings.                                                    *)
(*                                                                         *)
(* A list is the set of its members: their order does not matter, and the  *)
(* caller names each once.  The authentication the methods need is the     *)
(* subject of Desfire.                                                     *)
(***************************************************************************)
EXTENDS Naturals

CONSTANTS
  KeyTypes,   \* values of key types the caller creates an application with
  KeyCounts,  \* numbers of keys it creates one with
  Policies,   \* values of KS_CHANGE_KEY members the caller puts in a list
  Toggled,    \* values of members the caller adds to a list it holds, or removes
  None

-----------------------------------------------------------------------------
(* DESFireKeySettings and DESFireKeyType by value                          *)

ALLOW_CHANGE_MK == 1
LISTING_WITHOUT_MK == 2
CREATE_DELETE_WITHOUT_MK == 4
CONFIGURATION_CHANGEABLE == 8
Flags ==
  {ALLOW_CHANGE_MK, LISTING_WITHOUT_MK, CREATE_DELETE_WITHOUT_MK, CONFIGURATION_CHANGEABLE}
ChangeKeyMembers == {16 * k : k \in 0 .. 15}
FACTORY_DEFAULT == 15
Members == Flags \cup ChangeKeyMembers \cup {FACTORY_DEFAULT}

ASSUME SettingsAssumption ==
  /\ KeyCounts \subseteq Nat /\ KeyTypes \subseteq {0, 64, 128}
  /\ Policies \subseteq ChangeKeyMembers /\ Toggled \subseteq Members

\* The bits of a byte, each by its value.
Weights == {1, 2, 4, 8, 16, 32, 64, 128}
BitsOf == [n \in 0 .. 255 |-> {w \in Weights : (n \div w) % 2 = 1}]
Bits(n) == BitsOf[n]

-----------------------------------------------------------------------------

VARIABLES
  card,   \* settings, key type and number of keys of the application, None before it is
  list,   \* the settings the caller holds, None before there are any
  sent    \* the list that was last written to the card, None before

vars == <<card, list, sent>>

TypeOK ==
  /\ card = None \/ card \in [settings : 0 .. 255, keys : 0 .. 255, type : KeyTypes,
                              count : KeyCounts]
  /\ list \in (SUBSET Members) \cup {None}
  /\ sent \in (SUBSET Members) \cup {None}

Init ==
  /\ card = None
  /\ list = None
  /\ sent = None

\* Seeded bug: members are found by value.
ParseEqual(byte) == {m \in Members : byte = m}

\* parse_settings: every member that has a bit in common.
ParseSettings(byte) == {m \in Members : Bits(byte) \cap Bits(m) # {}}

\* get_settings adds one member after the other ...
Total[settings \in SUBSET Members] ==
  IF settings = {} THEN 0
  ELSE LET m == CHOOSE m \in settings : TRUE IN m + Total[settings \ {m}]

\* Seeded bug: the sum is not cut to a byte.
GetSum(settings) == Total[settings]

\* Seeded bug: the mask keeps the flags only.
GetFlags(settings) == Total[settings] % 16

\* ... and cuts the sum to a byte.
GetSettings(settings) == Total[settings] % 256

\* Lists that name each bit at most once: flags and one KS_CHANGE_KEY member.
Proper(settings) ==
  \A m, n \in settings : m # n => Bits(m) \cap Bits(n) = {}

\* The caller puts a list together.
Build(settings) ==
  /\ list' = settings
  /\ UNCHANGED <<card, sent>>

\* Seeded bug: number of keys and key type change places.
PackSwapped(count, type) == count * 16 + type \div 16

\* keycount | key_type.value, which have no bit in common.
PackKeys(count, type) == count + type

\* An empty list, or a key count out of bounds, is refused.
CreateApplication(type, count) ==
  /\ card = None
  /\ list # None
  /\ list # {}
  /\ count <= 14
  /\ card' = [settings |-> GetSettings(list), keys |-> PackKeys(count, type),
              type |-> type, count |-> count]
  /\ sent' = list
  /\ UNCHANGED list

GetKeySetting ==
  /\ card # None
  /\ list' = ParseSettings(card.settings)
  /\ UNCHANGED <<card, sent>>

\* The caller changes the list it holds.
AddMember(m) ==
  /\ list # None
  /\ list' = list \cup {m}
  /\ UNCHANGED <<card, sent>>

RemoveMember(m) ==
  /\ list # None
  /\ list' = list \ {m}
  /\ UNCHANGED <<card, sent>>

\* External: the card refuses once its configuration is frozen.
Changeable == Bits(CONFIGURATION_CHANGEABLE) \subseteq Bits(card.settings)

ChangeKeySettings ==
  /\ card # None
  /\ list # None
  /\ Changeable
  /\ card' = [card EXCEPT !.settings = GetSettings(list)]
  /\ sent' = list
  /\ UNCHANGED list

Next ==
  \/ \E flags \in SUBSET Flags, p \in Policies : Build(flags \cup {p})
  \/ \E type \in KeyTypes, count \in KeyCounts : CreateApplication(type, count)
  \/ GetKeySetting
  \/ \E m \in Toggled : AddMember(m) \/ RemoveMember(m)
  \/ ChangeKeySettings

Spec == Init /\ [][Next]_vars

-----------------------------------------------------------------------------
(* Properties                                                              *)

\* A list without overlapping members arrives as its bits, whatever was on the card
\* before.
ProperListArrives ==
  sent # None /\ Proper(sent) =>
    Bits(card.settings) = UNION {Bits(m) : m \in sent}

\* A flag is in the list read from the card just when the card has it, whatever list
\* the settings were written with; the key that may change keys is, if it is not 0,
\* among those the list names; key type and number of keys are those the application
\* was created with (get_key_setting).
FlagsReported ==
  [][ GetKeySetting =>
        /\ \A m \in Flags : m \in list' <=> Bits(m) \subseteq Bits(card.settings)
        /\ card.settings >= 16 => card.settings - (card.settings % 16) \in list'
        /\ card.keys % 16 = card.count
        /\ card.keys - (card.keys % 16) = card.type ]_vars

=============================================================================
