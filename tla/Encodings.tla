----------------------------- MODULE Encodings -----------------------------
(***************************************************************************)
(* How numbers and permissions become bytes and come back: util.get_list   *)
(* of an integer, FileSettings.parse and FilePermissions                   *)
(* (src/src/desfire/util.py, src/src/desfire/schemas).                     *)
(***************************************************************************)
EXTENDS Naturals, Sequences

CONSTANT Byte  \* how many values a byte has

ASSUME ByteAssumption == Byte \in Nat \ {0}

\* to_bytes raises OverflowError for a number that needs more than three bytes.
FitsThree(n) == n < Byte * Byte * Byte

\* Seeded bug: big endian, as util.get_list has it unless it is told otherwise.
BigEndian(n) == <<n \div (Byte * Byte), (n \div Byte) % Byte, n % Byte>>

\* Three bytes, little endian.
ThreeBytes(n) == <<n % Byte, (n \div Byte) % Byte, n \div (Byte * Byte)>>

\* struct.unpack("<I") of three bytes and a zero.
FromThree(b) == b[1] + Byte * b[2] + Byte * Byte * b[3]

\* A byte is two halves of four bits.
Half == 16

KeyNumbers == 0 .. Half - 1
Permissions ==
  [read_access : KeyNumbers, write_access : KeyNumbers,
   read_and_write_access : KeyNumbers, change_access : KeyNumbers]

\* Seeded bug: read and write changed places.
SwappedPermissions(p) ==
  <<p.read_and_write_access * Half + p.change_access,
    p.write_access * Half + p.read_access>>

GetPermissions(p) ==
  <<p.read_and_write_access * Half + p.change_access,
    p.read_access * Half + p.write_access>>

ParsePermissions(b) ==
  [write_access |-> b[2] % Half,
   read_access |-> (b[2] \div Half) % Half,
   change_access |-> b[1] % Half,
   read_and_write_access |-> (b[1] \div Half) % Half]

\* FileSettings.parse of type, mode, permissions and size.
ParseSettings(b) ==
  [type |-> b[1],
   encryption |-> b[2],
   permissions |-> ParsePermissions(<<b[3], b[4]>>),
   size |-> FromThree(<<b[5], b[6], b[7]>>)]

=============================================================================
