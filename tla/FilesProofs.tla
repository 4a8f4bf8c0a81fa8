---------------------------- MODULE FilesProofs ----------------------------
(***************************************************************************)
(* What holds of Files for every value of its constants: the file methods  *)
(* do what FileStore promises, whatever the size of a byte, of the chunks  *)
(* and of the files.                                                       *)
(***************************************************************************)
EXTENDS Files, TLAPS

-----------------------------------------------------------------------------
(* Encodings: what is parsed is what was encoded.                          *)

LEMMA Divide ==
  ASSUME NEW n \in Nat, NEW b \in Nat \ {0}
  PROVE  /\ n \div b \in Nat /\ n % b \in 0 .. b - 1
         /\ n = b * (n \div b) + (n % b)
OBVIOUS

LEMMA DivideUnique ==
  ASSUME NEW b \in Nat \ {0}, NEW q \in Nat, NEW r \in 0 .. b - 1
  PROVE  (b * q + r) \div b = q /\ (b * q + r) % b = r
OBVIOUS

LEMMA DivideTwice ==
  ASSUME NEW n \in Nat, NEW b \in Nat \ {0}
  PROVE  n \div (b * b) = (n \div b) \div b
<1> DEFINE q == n \div b
           r == n % b
           q2 == q \div b
           r2 == q % b
<1>1. q \in Nat /\ r \in 0 .. b - 1 /\ n = b * q + r
  BY Divide
<1>2. q2 \in Nat /\ r2 \in 0 .. b - 1 /\ q = b * q2 + r2
  BY <1>1, Divide
<1>3. b * b \in Nat \ {0}
  OBVIOUS
<1> HIDE DEF q, r, q2, r2
<1>4. n = b * b * q2 + (b * r2 + r)
  BY <1>1, <1>2
<1>5. b * r2 + r \in 0 .. b * b - 1
  BY <1>1, <1>2
<1>6. (b * b * q2 + (b * r2 + r)) \div (b * b) = q2
  BY <1>2, <1>3, <1>5, DivideUnique
<1> QED BY <1>4, <1>6 DEF q2, q

\* A number comes back from its three bytes.
LEMMA ThreeBytesBack ==
  ASSUME NEW n \in Nat
  PROVE  /\ ThreeBytes(n)[1] \in Nat /\ ThreeBytes(n)[2] \in Nat /\ ThreeBytes(n)[3] \in Nat
         /\ FromThree(<<ThreeBytes(n)[1], ThreeBytes(n)[2], ThreeBytes(n)[3]>>) = n
<1> DEFINE q == n \div Byte
           q2 == q \div Byte
<1>1. Byte \in Nat \ {0}
  BY ByteAssumption
<1>2. q \in Nat /\ n % Byte \in Nat /\ n = Byte * q + (n % Byte)
  BY <1>1, Divide
<1>3. q2 \in Nat /\ q % Byte \in Nat /\ q = Byte * q2 + (q % Byte)
  BY <1>1, <1>2, Divide
<1>4. n \div (Byte * Byte) = q2
  BY <1>1, DivideTwice
<1>5. ThreeBytes(n) = <<n % Byte, q % Byte, q2>>
  BY <1>4 DEF ThreeBytes
<1> HIDE DEF q, q2
<1>6. (n % Byte) + Byte * (q % Byte) + Byte * Byte * q2 = n
  BY <1>1, <1>2, <1>3
<1> QED BY <1>2, <1>3, <1>5, <1>6 DEF FromThree

-----------------------------------------------------------------------------
(* Byte lists                                                              *)

\* The provers take a length from bounds, not from an equation.
IsLong(q, n) == Len(q) <= n /\ Len(q) >= n

\* They take a sequence of Nat for one of integers, too.
Numbers == Nat

LEMMA IsLongExactly ==
  ASSUME NEW S, NEW q \in Seq(S), NEW n \in Nat
  PROVE  IsLong(q, n) <=> Len(q) = n
BY DEF IsLong

LEMMA ShortLists ==
  ASSUME NEW S, NEW a \in S, NEW b \in S, NEW c \in S
  PROVE  /\ <<a>> \in Seq(S) /\ IsLong(<<a>>, 1)
         /\ <<a, b>> \in Seq(S) /\ IsLong(<<a, b>>, 2)
         /\ <<a, b, c>> \in Seq(S) /\ IsLong(<<a, b, c>>, 3)
BY DEF IsLong

LEMMA SixElements ==
  ASSUME NEW S, NEW q \in Seq(S), IsLong(q, 6)
  PROVE  q[1] \in S /\ q[2] \in S /\ q[3] \in S /\ q[4] \in S /\ q[5] \in S /\ q[6] \in S
BY DEF IsLong

-----------------------------------------------------------------------------
(* Settings                                                                *)

LEMMA ThreeBytesTyped ==
  ASSUME NEW n \in Nat
  PROVE  ThreeBytes(n) \in Seq(Numbers) /\ IsLong(ThreeBytes(n), 3)
<1>1. n % Byte \in Nat /\ (n \div Byte) % Byte \in Nat /\ n \div (Byte * Byte) \in Nat
  <2>1. Byte \in Nat \ {0} /\ Byte * Byte \in Nat \ {0}
    BY ByteAssumption
  <2>2. n % Byte \in Nat /\ n \div Byte \in Nat /\ n \div (Byte * Byte) \in Nat
    BY <2>1, Divide
  <2>3. (n \div Byte) % Byte \in Nat
    BY <2>1, <2>2, Divide
  <2> QED BY <2>2, <2>3
<1> QED BY <1>1, ShortLists DEF ThreeBytes, Numbers

\* Permissions come back from their two bytes.
LEMMA PermissionsBack ==
  ASSUME NEW p \in Permissions
  PROVE  /\ GetPermissions(p) \in Seq(Numbers) /\ IsLong(GetPermissions(p), 2)
         /\ ParsePermissions(<<GetPermissions(p)[1], GetPermissions(p)[2]>>) = p
<1>1. \A h, l \in 0 .. 15 : (h * 16 + l) % 16 = l /\ ((h * 16 + l) \div 16) % 16 = h
  OBVIOUS
<1>2. /\ p.read_access \in 0 .. 15 /\ p.write_access \in 0 .. 15
      /\ p.read_and_write_access \in 0 .. 15 /\ p.change_access \in 0 .. 15
  BY DEF Permissions, KeyNumbers, Half
<1>3. p = [read_access |-> p.read_access, write_access |-> p.write_access,
           read_and_write_access |-> p.read_and_write_access, change_access |-> p.change_access]
  BY DEF Permissions
<1> DEFINE m == p.read_and_write_access * 16 + p.change_access
           n == p.read_access * 16 + p.write_access
<1>4. GetPermissions(p) = <<m, n>>
  BY DEF GetPermissions, Half
<1>5. m \in Nat /\ n \in Nat
  BY <1>2
<1>6. /\ m % 16 = p.change_access /\ (m \div 16) % 16 = p.read_and_write_access
      /\ n % 16 = p.write_access /\ (n \div 16) % 16 = p.read_access
  BY <1>1, <1>2
<1> HIDE DEF m, n
<1>7. ParsePermissions(<<m, n>>) = p
  BY <1>3, <1>6 DEF ParsePermissions, Half
<1>8. GetPermissions(p)[1] = m /\ GetPermissions(p)[2] = n
  BY <1>4
<1>9. <<m, n>> \in Seq(Numbers) /\ IsLong(<<m, n>>, 2)
  BY <1>5, ShortLists DEF Numbers
<1>10. GetPermissions(p) \in Seq(Numbers) /\ IsLong(GetPermissions(p), 2)
  BY <1>4, <1>9
<1> QED BY <1>7, <1>8, <1>10

LEMMA FromThreeTyped ==
  ASSUME NEW x \in Nat, NEW y \in Nat, NEW z \in Nat
  PROVE  FromThree(<<x, y, z>>) \in Nat
<1>1. x + Byte * y + Byte * Byte * z \in Nat
  BY ByteAssumption
<1>2. FromThree(<<x, y, z>>) = x + Byte * y + Byte * Byte * z
  BY DEF FromThree
<1> QED BY <1>1, <1>2

\* What a card may keep is parsed to settings.
LEMMA SettingsTyped ==
  ASSUME NEW type \in Nat, NEW header \in Seq(Numbers), IsLong(header, 6)
  PROVE  LET settings == ParseSettings(<<type>> \o header)
             size == FromThree(<<header[4], header[5], header[6]>>)
         IN  settings \in Settings /\ settings.type = type /\ settings.size = size /\ size \in Nat
<1> DEFINE b == <<type>> \o header
           size == FromThree(<<header[4], header[5], header[6]>>)
           permissions == ParsePermissions(<<header[2], header[3]>>)
<1>1. /\ header[1] \in Nat /\ header[2] \in Nat /\ header[3] \in Nat
      /\ header[4] \in Nat /\ header[5] \in Nat /\ header[6] \in Nat
  BY SixElements DEF Numbers
<1>2. /\ b[1] = type /\ b[2] = header[1] /\ b[3] = header[2] /\ b[4] = header[3]
      /\ b[5] = header[4] /\ b[6] = header[5] /\ b[7] = header[6]
  <2> DEFINE a == <<type>>
  <2>1. a \in Seq(Numbers) /\ IsLong(a, 1) /\ a[1] = type
    BY ShortLists DEF Numbers
  <2> HIDE DEF a
  <2> DEFINE q == a \o header
  <2>2. /\ q[1] = a[1] /\ q[2] = header[1] /\ q[3] = header[2] /\ q[4] = header[3]
         /\ q[5] = header[4] /\ q[6] = header[5] /\ q[7] = header[6]
    BY <2>1 DEF IsLong
  <2> QED BY <2>1, <2>2 DEF a
<1>3. permissions \in Permissions
  <2>1. \A m \in Nat : m % 16 \in 0 .. 15 /\ (m \div 16) % 16 \in 0 .. 15
    OBVIOUS
  <2> DEFINE m == header[2]
             n == header[3]
  <2>2. permissions = [read_access |-> (n \div 16) % 16, write_access |-> n % 16,
                       read_and_write_access |-> (m \div 16) % 16, change_access |-> m % 16]
    BY DEF ParsePermissions, Half
  <2>3. m \in Nat /\ n \in Nat
    BY <1>1
  <2> HIDE DEF m, n
  <2>4. /\ n % 16 \in 0 .. 15 /\ (n \div 16) % 16 \in 0 .. 15
        /\ m % 16 \in 0 .. 15 /\ (m \div 16) % 16 \in 0 .. 15
    BY <2>1, <2>3
  <2>5. KeyNumbers = 0 .. 15
    BY DEF KeyNumbers, Half
  <2> HIDE DEF permissions
  <2> QED BY <2>2, <2>4, <2>5 DEF Permissions
<1>4. size \in Nat
  BY <1>1, FromThreeTyped
<1> HIDE DEF b, size, permissions
<1>5. ParseSettings(b) = [type |-> type, encryption |-> header[1], permissions |-> permissions,
                          size |-> size]
  BY <1>2 DEF ParseSettings, permissions, size
<1>6. ParseSettings(b) \in Settings /\ ParseSettings(b).type = type /\ ParseSettings(b).size = size
  BY <1>1, <1>3, <1>4, <1>5 DEF Settings
<1> QED BY <1>4, <1>6 DEF b, size

\* Settings come back from the bytes create_standard_file sends.
LEMMA SettingsBack ==
  ASSUME NEW s \in Settings
  PROVE  /\ SettingsBytes(s) \in Seq(Numbers) /\ IsLong(SettingsBytes(s), 6)
         /\ ParseSettings(<<s.type>> \o SettingsBytes(s)) = s
         /\ FromThree(<<SettingsBytes(s)[4], SettingsBytes(s)[5], SettingsBytes(s)[6]>>) = s.size
<1> DEFINE e == <<s.encryption>>
           p == GetPermissions(s.permissions)
           n == ThreeBytes(s.size)
           h == SettingsBytes(s)
           t == <<s.type>>
           b == t \o h
<1>1. /\ s.type \in Nat /\ s.encryption \in Nat /\ s.permissions \in Permissions /\ s.size \in Nat
      /\ s = [type |-> s.type, encryption |-> s.encryption, permissions |-> s.permissions,
              size |-> s.size]
  BY DEF Settings
<1>2. /\ p \in Seq(Numbers) /\ IsLong(p, 2)
      /\ ParsePermissions(<<p[1], p[2]>>) = s.permissions
  BY <1>1, PermissionsBack
<1>3. /\ n \in Seq(Numbers) /\ IsLong(n, 3)
      /\ FromThree(<<n[1], n[2], n[3]>>) = s.size
  BY <1>1, ThreeBytesBack, ThreeBytesTyped
<1>4. h = e \o p \o n
  BY DEF SettingsBytes
<1>5. /\ e \in Seq(Numbers) /\ IsLong(e, 1) /\ e[1] = s.encryption
      /\ t \in Seq(Numbers) /\ IsLong(t, 1) /\ t[1] = s.type
  BY <1>1, ShortLists DEF Numbers
<1> HIDE DEF e, p, n, h, t
<1>6. /\ h \in Seq(Numbers) /\ IsLong(h, 6) /\ h[1] = s.encryption
      /\ h[2] = p[1] /\ h[3] = p[2] /\ h[4] = n[1] /\ h[5] = n[2] /\ h[6] = n[3]
  <2> DEFINE q == e \o p \o n
  <2>1. /\ q \in Seq(Numbers) /\ IsLong(q, 6) /\ q[1] = e[1]
         /\ q[2] = p[1] /\ q[3] = p[2] /\ q[4] = n[1] /\ q[5] = n[2] /\ q[6] = n[3]
    BY <1>2, <1>3, <1>5 DEF IsLong
  <2> QED BY <1>4, <1>5, <2>1
<1>7. /\ b[1] = s.type /\ b[2] = h[1] /\ b[3] = h[2] /\ b[4] = h[3]
      /\ b[5] = h[4] /\ b[6] = h[5] /\ b[7] = h[6]
  <2> DEFINE q == t \o h
  <2>1. /\ q[1] = t[1] /\ q[2] = h[1] /\ q[3] = h[2] /\ q[4] = h[3]
         /\ q[5] = h[4] /\ q[6] = h[5] /\ q[7] = h[6]
    BY <1>5, <1>6 DEF IsLong
  <2> QED BY <1>5, <2>1
<1> HIDE DEF b
<1>8. ParseSettings(b) = s
  BY <1>1, <1>2, <1>3, <1>6, <1>7 DEF ParseSettings
<1> QED BY <1>3, <1>6, <1>8 DEF h, b, t

-----------------------------------------------------------------------------
(* The inductive invariant: what is on its way belongs to the method on    *)
(* the stack and to where it has got, and an answer holds what the card    *)
(* holds.                                                                  *)

\* A file the card keeps.
KeptFiles == [type : {Standard} \cup OtherTypes, header : Seq(Numbers), bytes : FileBytes]

CardFileOK(file) ==
  /\ file \in KeptFiles
  /\ IsLong(file.header, 6)
  /\ file.bytes \in [0 .. SizeOf(file) - 1 -> Contents]

FilesOK ==
  /\ files \in [FileIds -> KeptFiles \cup {None}]
  /\ \A id \in FileIds : files[id] # None => CardFileOK(files[id])

ReadSettings == call # None /\ call.op = "settings"
Reads == call # None /\ call.op = "read"

RequestOK ==
  request # None =>
    /\ call # None /\ response = None
    /\ request.op = call.op /\ request.id = call.id
    /\ call.op = "create" =>
         request.header = SettingsBytes(call.settings) /\ FitsThree(call.settings.size)
    /\ call.op = "write" =>
         /\ request.header = ThreeBytes(call.offset) \o ThreeBytes(Len(call.data))
         /\ request.data = call.data
    /\ call.op = "read" =>
         /\ progress.left > 0
         /\ request.header = ThreeBytes(progress.offset) \o ThreeBytes(Count(progress.left))

Chunked ==
  /\ progress.left > 0
  /\ files[call.id] # None
  /\ progress.offset + Count(progress.left) <= SizeOf(files[call.id])
  /\ response.data = Store!Part(files[call.id].bytes, progress.offset, Count(progress.left))

ResponseOK ==
  response # None =>
    /\ call # None /\ response.ok \in BOOLEAN
    /\ response.ok /\ call.op = "settings" =>
         /\ files[call.id] # None
         /\ response.data = <<files[call.id].type>> \o files[call.id].header
    /\ response.ok /\ call.op = "read" => Chunked

ProgressOK ==
  /\ progress.offset \in Nat /\ progress.left \in Nat
  /\ ~Reads => progress = NotReading
  /\ progress.offset = 0 => progress.ret = <<>>
  /\ Reads => (progress.left = 0 => call.size = 0)
  /\ ReadSoFar

IInv ==
  /\ call \in Calls \cup {None}
  /\ FilesOK /\ RequestOK /\ ResponseOK /\ ProgressOK

-----------------------------------------------------------------------------
(* Files                                                                   *)

\* Offset and length come back from the header of a request.
LEMMA HeaderBack ==
  ASSUME NEW m \in Nat, NEW n \in Nat, NEW h, h = ThreeBytes(m) \o ThreeBytes(n)
  PROVE  FromThree(<<h[1], h[2], h[3]>>) = m /\ FromThree(<<h[4], h[5], h[6]>>) = n
<1> DEFINE a == ThreeBytes(m)
           b == ThreeBytes(n)
<1>1. /\ a \in Seq(Numbers) /\ IsLong(a, 3) /\ FromThree(<<a[1], a[2], a[3]>>) = m
      /\ b \in Seq(Numbers) /\ IsLong(b, 3) /\ FromThree(<<b[1], b[2], b[3]>>) = n
  BY ThreeBytesTyped, ThreeBytesBack
<1> HIDE DEF a, b
<1>2. /\ (a \o b)[1] = a[1] /\ (a \o b)[2] = a[2] /\ (a \o b)[3] = a[3]
      /\ (a \o b)[4] = b[1] /\ (a \o b)[5] = b[2] /\ (a \o b)[6] = b[3]
  BY <1>1 DEF IsLong
<1>3. h = a \o b
  BY DEF a, b
<1> QED BY <1>1, <1>2, <1>3

LEMMA KeptTyped ==
  ASSUME NEW f, CardFileOK(f)
  PROVE  /\ SettingsOf(f) \in Settings /\ SettingsOf(f).size = SizeOf(f)
         /\ SettingsOf(f).type = f.type /\ SizeOf(f) \in Nat
         /\ f # None /\ [settings |-> SettingsOf(f), bytes |-> f.bytes] # None
<1>1. /\ f.type \in {Standard} \cup OtherTypes /\ f.header \in Seq(Numbers) /\ f.bytes \in FileBytes
      /\ f \in KeptFiles /\ IsLong(f.header, 6)
  BY DEF CardFileOK, KeptFiles
<1>2. f.type \in Nat
  BY <1>1, FilesAssumption
<1>3. /\ SettingsOf(f) \in Settings /\ SettingsOf(f).size = SizeOf(f)
      /\ SettingsOf(f).type = f.type /\ SizeOf(f) \in Nat
  BY <1>1, <1>2, SettingsTyped DEF SettingsOf, SizeOf
<1>4. f \in CardFiles
  BY <1>1, FilesAssumption DEF CardFiles, KeptFiles, Numbers
<1>5. [settings |-> SettingsOf(f), bytes |-> f.bytes] \in [settings : Settings, bytes : FileBytes]
  BY <1>1, <1>3
<1> QED BY <1>3, <1>4, <1>5, NoneAssumption

\* The bytes of a file of a size that three bytes hold.
LEMMA BytesKept ==
  ASSUME NEW n \in Nat, FitsThree(n), NEW bytes \in [0 .. n - 1 -> Contents]
  PROVE  bytes \in FileBytes
<1>1. n \in 0 .. Byte * Byte * Byte - 1
  BY ByteAssumption DEF FitsThree
<1> QED BY <1>1 DEF FileBytes

\* A file the card creates.
LEMMA NewKept ==
  ASSUME NEW s \in Settings, s.type = Standard, FitsThree(s.size),
         NEW f, f = [type |-> Standard, header |-> SettingsBytes(s),
                     bytes |-> [p \in 0 .. s.size - 1 |-> Zero]]
  PROVE  CardFileOK(f) /\ SettingsOf(f) = s /\ SizeOf(f) = s.size
<1>1. s.size \in Nat
  BY DEF Settings
<1>2. [p \in 0 .. s.size - 1 |-> Zero] \in [0 .. s.size - 1 -> Contents]
  BY FilesAssumption
<1>3. f.bytes \in FileBytes
  BY <1>1, <1>2, BytesKept
<1>4. /\ SettingsBytes(s) \in Seq(Numbers) /\ IsLong(SettingsBytes(s), 6)
      /\ ParseSettings(<<s.type>> \o SettingsBytes(s)) = s
      /\ FromThree(<<SettingsBytes(s)[4], SettingsBytes(s)[5], SettingsBytes(s)[6]>>) = s.size
  BY SettingsBack
<1>5. SettingsOf(f) = s /\ SizeOf(f) = s.size
  BY <1>4 DEF SettingsOf, SizeOf
<1>6. f \in KeptFiles
  BY <1>3, <1>4 DEF KeptFiles
<1> QED BY <1>2, <1>4, <1>5, <1>6 DEF CardFileOK

\* A file the card writes to.
LEMMA OverlaidKept ==
  ASSUME NEW f, CardFileOK(f), NEW from \in Nat, NEW data \in Seq(Contents),
         NEW g, g = [f EXCEPT !.bytes = Store!Overlaid(@, from, data)]
  PROVE  /\ CardFileOK(g) /\ SettingsOf(g) = SettingsOf(f)
         /\ g.bytes = Store!Overlaid(f.bytes, from, data)
<1>1. /\ f \in KeptFiles /\ f.bytes \in [0 .. SizeOf(f) - 1 -> Contents] /\ SizeOf(f) \in Nat
      /\ f.bytes \in FileBytes
  BY KeptTyped DEF CardFileOK, KeptFiles
<1>2. /\ g.type = f.type /\ g.header = f.header
      /\ g.bytes = Store!Overlaid(f.bytes, from, data)
  BY <1>1 DEF KeptFiles
<1>3. SettingsOf(g) = SettingsOf(f) /\ SizeOf(g) = SizeOf(f)
  BY <1>2 DEF SettingsOf, SizeOf
<1>4. g.bytes \in [0 .. SizeOf(f) - 1 -> Contents]
  <2>1. ASSUME NEW p \in 0 .. SizeOf(f) - 1, from <= p, p < from + Len(data)
        PROVE  data[p - from + 1] \in Contents
    <3>1. p - from + 1 \in 1 .. Len(data)
      BY <1>1, <2>1
    <3> QED BY <3>1
  <2>2. DOMAIN f.bytes = 0 .. SizeOf(f) - 1 /\ \A p \in 0 .. SizeOf(f) - 1 : f.bytes[p] \in Contents
    BY <1>1
  <2> QED BY <1>2, <2>1, <2>2 DEF Store!Overlaid
<1>5. PICK n \in 0 .. Byte * Byte * Byte - 1 : f.bytes \in [0 .. n - 1 -> Contents]
  BY <1>1 DEF FileBytes
<1>6. 0 .. n - 1 = 0 .. SizeOf(f) - 1
  BY <1>1, <1>5
<1>7. g.bytes \in FileBytes
  BY <1>4, <1>5, <1>6 DEF FileBytes
<1>8. g \in KeptFiles
  BY <1>1, <1>7 DEF KeptFiles
<1>9. IsLong(g.header, 6)
  BY <1>2 DEF CardFileOK
<1> QED BY <1>2, <1>3, <1>4, <1>8, <1>9 DEF CardFileOK

\* The elements of two lists, one behind the other.
LEMMA Joined ==
  ASSUME NEW S, NEW a \in Seq(S), NEW b \in Seq(S)
  PROVE  /\ a \o b \in Seq(S) /\ Len(a \o b) = Len(a) + Len(b)
         /\ \A i \in 1 .. Len(a) : (a \o b)[i] = a[i]
         /\ \A i \in 1 .. Len(b) : (a \o b)[Len(a) + i] = b[i]
OBVIOUS

LEMMA SameLists ==
  ASSUME NEW S, NEW a \in Seq(S), NEW b \in Seq(S), Len(a) = Len(b),
         \A i \in 1 .. Len(a) : a[i] = b[i]
  PROVE  a = b
OBVIOUS

\* Two chunks, one behind the other, are one.
LEMMA PartsJoined ==
  ASSUME NEW size \in Nat, NEW bytes \in [0 .. size - 1 -> Contents],
         NEW m \in Nat, NEW n \in Nat, m + n <= size
  PROVE  /\ Store!Part(bytes, 0, m) \o Store!Part(bytes, m, n) = Store!Part(bytes, 0, m + n)
         /\ Store!Part(bytes, 0, m + n) \in Seq(Contents)
<1> DEFINE a == Store!Part(bytes, 0, m)
           b == Store!Part(bytes, m, n)
           c == Store!Part(bytes, 0, m + n)
<1>1. /\ a \in [1 .. m -> Contents] /\ \A i \in 1 .. m : a[i] = bytes[i - 1]
      /\ b \in [1 .. n -> Contents] /\ \A i \in 1 .. n : b[i] = bytes[m + i - 1]
      /\ c \in [1 .. m + n -> Contents] /\ \A i \in 1 .. m + n : c[i] = bytes[i - 1]
  BY DEF Store!Part
<1> HIDE DEF a, b, c
<1>2. /\ a \in Seq(Contents) /\ Len(a) = m /\ b \in Seq(Contents) /\ Len(b) = n
      /\ c \in Seq(Contents) /\ Len(c) = m + n
  BY <1>1
<1> DEFINE q == a \o b
<1>3. /\ q \in Seq(Contents) /\ Len(q) = m + n
      /\ \A i \in 1 .. m : q[i] = a[i]
      /\ \A i \in 1 .. n : q[m + i] = b[i]
  <2>1. /\ q \in Seq(Contents) /\ Len(q) = Len(a) + Len(b)
        /\ \A i \in 1 .. Len(a) : q[i] = a[i]
        /\ \A i \in 1 .. Len(b) : q[Len(a) + i] = b[i]
    <3>1. a \in Seq(Contents) /\ b \in Seq(Contents)
      BY <1>2
    <3> QED BY <3>1, Joined
  <2> HIDE DEF q
  <2> QED BY <1>2, <2>1
<1> HIDE DEF q
<1>4. \A i \in 1 .. m + n : q[i] = c[i]
  <2> SUFFICES ASSUME NEW i \in 1 .. m + n PROVE q[i] = c[i]
    OBVIOUS
  <2>1. CASE i <= m
    <3>1. i \in 1 .. m
      BY <2>1
    <3> QED BY <1>1, <1>3, <3>1
  <2>2. CASE i > m
    <3>1. i - m \in 1 .. n /\ m + (i - m) = i
      BY <2>2
    <3>2. q[i] = b[i - m] /\ b[i - m] = bytes[m + (i - m) - 1]
      BY <1>1, <1>3, <3>1
    <3> QED BY <1>1, <3>1, <3>2
  <2> QED BY <2>1, <2>2
<1>5. q = c
  BY <1>2, <1>3, <1>4, SameLists
<1> QED BY <1>2, <1>5 DEF a, b, c, q

-----------------------------------------------------------------------------
(* The invariant holds.                                                    *)

LEMMA InitInv == Init => IInv
<1> SUFFICES ASSUME Init PROVE IInv
  OBVIOUS
<1>1. call = None /\ request = None /\ response = None /\ progress = NotReading
  BY DEF Init
<1>2. ProgressOK
  BY <1>1 DEF ProgressOK, NotReading, Reads, ReadSoFar
<1>3. FilesOK
  <2> DEFINE empty == <<0, 0, 0, 0, 0, 0>>
  <2>1. files \in [FileIds -> {None} \cup [type : OtherTypes, header : {empty}, bytes : {<<>>}]]
    BY DEF Init
  <2>2. empty \in Seq(Numbers) /\ IsLong(empty, 6) /\ FromThree(<<empty[4], empty[5], empty[6]>>) = 0
    BY ByteAssumption DEF IsLong, FromThree, Numbers
  <2>3. <<>> \in [0 .. 0 - 1 -> Contents]
    OBVIOUS
  <2>4. FitsThree(0)
    BY ByteAssumption DEF FitsThree
  <2>5. <<>> \in FileBytes
    BY <2>3, <2>4, BytesKept
  <2> HIDE DEF empty
  <2>6. ASSUME NEW f \in [type : OtherTypes, header : {empty}, bytes : {<<>>}]
        PROVE  CardFileOK(f)
    <3>1. f.type \in OtherTypes /\ f.header = empty /\ f.bytes = <<>> /\ SizeOf(f) = 0
      BY <2>2 DEF SizeOf
    <3>2. f \in KeptFiles
      BY <2>2, <2>5 DEF KeptFiles
    <3> QED BY <2>2, <2>3, <3>1, <3>2 DEF CardFileOK
  <2>7. \A id \in FileIds : files[id] # None => CardFileOK(files[id])
    BY <2>1, <2>6
  <2>8. files \in [FileIds -> KeptFiles \cup {None}]
    BY <2>1, <2>6 DEF CardFileOK
  <2> QED BY <2>7, <2>8 DEF FilesOK
<1> QED BY <1>1, <1>2, <1>3 DEF IInv, RequestOK, ResponseOK

\* A method that is called is one of them.
LEMMA BeginTyped ==
  ASSUME IInv, NEW method \in Calls, Begin(method)
  PROVE  call' = method /\ call' \in Calls /\ call' # None /\ FilesOK' /\ ResponseOK'
<1>1. call' = method /\ response' = None /\ files' = files
  BY DEF Begin
<1>2. FilesOK'
  BY <1>1 DEF IInv, FilesOK, CardFileOK, SizeOf
<1> QED BY <1>1, <1>2, NoneAssumption DEF ResponseOK

LEMMA CallerInv ==
  ASSUME IInv, Caller
  PROVE  IInv'
<1>1. ASSUME NEW method \in Calls, Begin(method), method.op # "read", progress' = NotReading
      PROVE  ProgressOK'
  BY <1>1, BeginTyped DEF ProgressOK, Reads, ReadSoFar, NotReading
<1>2. PICK id \in FileIds :
        \/ \E e \in Modes, p \in PermissionSets, n \in Sizes :
             CreateStandardFile(id, [type |-> Standard, encryption |-> e, permissions |-> p,
                                     size |-> n])
        \/ GetFileSettings(id) \/ DeleteFile(id)
        \/ \E offset \in Offsets, data \in Datas : WriteFileData(id, offset, data)
        \/ \E size \in Sizes : ReadFileData(id, size)
  BY DEF Caller
<1>3. CASE Refuse
  BY <1>3 DEF Refuse, IInv, FilesOK, CardFileOK, SizeOf, RequestOK, ResponseOK, Chunked, ProgressOK,
              Reads, ReadSoFar
<1>4. ASSUME NEW e \in Modes, NEW p \in PermissionSets, NEW n \in Sizes,
             CreateStandardFile(id, [type |-> Standard, encryption |-> e, permissions |-> p,
                                     size |-> n])
      PROVE  IInv'
  <2> DEFINE s == [type |-> Standard, encryption |-> e, permissions |-> p, size |-> n]
             method == [op |-> "create", id |-> id, settings |-> s]
  <2>1. CASE ~FitsThree(n)
    BY <1>3, <1>4, <2>1 DEF CreateStandardFile
  <2>2. CASE FitsThree(n)
    <3>1. method \in Calls
      BY DEF Calls
    <3>2. /\ Begin(method) /\ progress' = NotReading
          /\ request' = [op |-> "create", id |-> id, header |-> SettingsBytes(s), data |-> <<>>]
      BY <1>4, <2>2 DEF CreateStandardFile, Send
    <3>3. RequestOK'
      BY <2>2, <3>1, <3>2, BeginTyped DEF RequestOK, Begin
    <3> QED BY <1>1, <3>1, <3>2, <3>3, BeginTyped DEF IInv
  <2> QED BY <2>1, <2>2
<1>5. ASSUME NEW op \in {"settings", "delete"}, Begin([op |-> op, id |-> id]),
             progress' = NotReading, Send(op, id, <<>>, <<>>)
      PROVE  IInv'
  <2>1. [op |-> op, id |-> id] \in Calls
    BY DEF Calls
  <2>2. RequestOK'
    BY <1>5, <2>1, BeginTyped DEF RequestOK, Begin, Send
  <2> QED BY <1>1, <1>5, <2>1, <2>2, BeginTyped DEF IInv
<1>6. ASSUME NEW offset \in Offsets, NEW data \in Datas, WriteFileData(id, offset, data)
      PROVE  IInv'
  <2> DEFINE method == [op |-> "write", id |-> id, offset |-> offset, data |-> data]
  <2>1. CASE ~(Len(data) <= MaxData /\ FitsThree(offset) /\ FitsThree(Len(data)))
    BY <1>3, <1>6, <2>1 DEF WriteFileData
  <2>2. CASE Len(data) <= MaxData /\ FitsThree(offset) /\ FitsThree(Len(data))
    <3>1. method \in Calls
      BY DEF Calls
    <3>2. /\ Begin(method) /\ progress' = NotReading
          /\ request' = [op |-> "write", id |-> id,
                         header |-> ThreeBytes(offset) \o ThreeBytes(Len(data)), data |-> data]
      BY <1>6, <2>2 DEF WriteFileData, Send
    <3>3. RequestOK'
      BY <3>1, <3>2, BeginTyped DEF RequestOK, Begin
    <3> QED BY <1>1, <3>1, <3>2, <3>3, BeginTyped DEF IInv
  <2> QED BY <2>1, <2>2
<1>7. ASSUME NEW size \in Sizes, ReadFileData(id, size)
      PROVE  IInv'
  <2> DEFINE method == [op |-> "read", id |-> id, size |-> size]
  <2>1. size \in Nat
    BY FilesAssumption
  <2>2. method \in Calls
    BY DEF Calls
  <2>3. Begin(method) /\ progress' = [offset |-> 0, left |-> size, ret |-> <<>>]
    BY <1>7 DEF ReadFileData
  <2>4. ProgressOK'
    BY <2>1, <2>2, <2>3, BeginTyped DEF ProgressOK, Reads, ReadSoFar
  <2>5. RequestOK'
    <3>1. CASE size > 0
      BY <1>7, <2>1, <2>2, <2>3, <3>1, BeginTyped DEF ReadFileData, SendRead, Send, RequestOK, Begin
    <3>2. CASE ~(size > 0)
      BY <1>7, <3>2 DEF ReadFileData, RequestOK
    <3> QED BY <3>1, <3>2
  <2> QED BY <2>2, <2>3, <2>4, <2>5, BeginTyped DEF IInv
<1>8. CASE GetFileSettings(id)
  BY <1>5, <1>8 DEF GetFileSettings
<1>9. CASE DeleteFile(id)
  BY <1>5, <1>9 DEF DeleteFile
<1> QED BY <1>2, <1>4, <1>6, <1>7, <1>8, <1>9

\* What an answer leaves as it is.
LEMMA ReplyTyped ==
  ASSUME IInv, NEW ok \in BOOLEAN, NEW data, Reply(ok, data)
  PROVE  /\ call # None /\ call \in Calls /\ request # None /\ request.op = call.op
         /\ request.id = call.id /\ call.id \in FileIds
         /\ response = None /\ UNCHANGED <<call, progress, result>>
         /\ response' = [ok |-> ok, data |-> data] /\ RequestOK'
<1>1. request # None /\ request' = None /\ UNCHANGED <<call, progress, result>>
  BY DEF Reply
<1>2. call # None /\ call \in Calls
  BY <1>1 DEF IInv, RequestOK
<1>3. call.id \in FileIds
  BY <1>2 DEF Calls
<1> QED BY <1>1, <1>2, <1>3 DEF IInv, RequestOK, Reply

\* An answer to a method that changes something.
LEMMA ChangeInv ==
  ASSUME IInv, Reply(TRUE, <<>>), request.op \in Changing, FilesOK'
  PROVE  IInv'
<1>1. /\ call # None /\ call \in Calls /\ request.op = call.op /\ UNCHANGED <<call, progress>>
      /\ response' = [ok |-> TRUE, data |-> <<>>] /\ RequestOK'
  BY ReplyTyped
<1>2. call.op \in {"create", "write", "delete"}
  BY <1>1 DEF Changing
<1>3. ResponseOK'
  BY <1>1, <1>2 DEF ResponseOK
<1>4. ProgressOK'
  BY <1>1, <1>2 DEF IInv, ProgressOK, Reads, ReadSoFar
<1> QED BY <1>1, <1>3, <1>4 DEF IInv

\* A file is replaced by another, or removed.
LEMMA ReplaceInv ==
  ASSUME FilesOK, NEW id \in FileIds, NEW f, CardFileOK(f) \/ f = None,
         files' = [files EXCEPT ![id] = f]
  PROVE  FilesOK'
<1>1. f \in KeptFiles \cup {None}
  BY DEF CardFileOK
<1>2. files' \in [FileIds -> KeptFiles \cup {None}]
  BY <1>1 DEF FilesOK
<1>3. \A i \in FileIds : files'[i] # None => CardFileOK(files'[i])
  BY DEF FilesOK
<1> QED BY <1>2, <1>3 DEF FilesOK, CardFileOK, SizeOf

\* Without a file changed, an answer to read_file_data or get_file_settings, or an error.
LEMMA SameFilesInv ==
  ASSUME IInv, NEW ok \in BOOLEAN, NEW data, Reply(ok, data), UNCHANGED files,
         ok => /\ ReadSettings => /\ files[call.id] # None
                                  /\ data = <<files[call.id].type>> \o files[call.id].header
               /\ Reads => /\ progress.left > 0 /\ files[call.id] # None
                           /\ progress.offset + Count(progress.left) <= SizeOf(files[call.id])
                           /\ data = Store!Part(files[call.id].bytes, progress.offset,
                                                Count(progress.left))
  PROVE  IInv'
<1>1. /\ call # None /\ UNCHANGED <<call, progress>> /\ call \in Calls
      /\ response' = [ok |-> ok, data |-> data] /\ RequestOK'
  BY ReplyTyped
<1>2. FilesOK' /\ ProgressOK'
  BY <1>1 DEF IInv, FilesOK, CardFileOK, SizeOf, ProgressOK, Reads, ReadSoFar
<1>3. ResponseOK'
  BY <1>1 DEF ResponseOK, ReadSettings, Reads, Chunked, SizeOf, Count
<1> QED BY <1>1, <1>2, <1>3 DEF IInv

\* What the card creates is what the caller asked for.
LEMMA CreateIs ==
  ASSUME IInv, CardCreate
  PROVE  \E f : /\ CardFileOK(f) /\ SettingsOf(f) = call.settings
                /\ f.bytes = [p \in 0 .. call.settings.size - 1 |-> Zero]
                /\ files' = [files EXCEPT ![call.id] = f]
<1>1. /\ call \in Calls /\ request.op = call.op /\ request.id = call.id /\ call.op = "create"
      /\ request # None
  BY ReplyTyped DEF CardCreate
<1>2. request.header = SettingsBytes(call.settings) /\ FitsThree(call.settings.size)
  BY <1>1 DEF IInv, RequestOK
<1>3. call.settings \in Settings /\ call.settings.type = Standard
  BY <1>1, FilesAssumption DEF Calls, Settings
<1> DEFINE s == call.settings
           size == FromThree(<<request.header[4], request.header[5], request.header[6]>>)
           f == [type |-> Standard, header |-> request.header,
                 bytes |-> [p \in 0 .. size - 1 |-> Zero]]
<1>4. size = s.size
  BY <1>2, <1>3, SettingsBack
<1>5. f = [type |-> Standard, header |-> SettingsBytes(s), bytes |-> [p \in 0 .. s.size - 1 |-> Zero]]
  BY <1>2, <1>4
<1>6. CardFileOK(f) /\ SettingsOf(f) = s
  BY <1>2, <1>3, <1>5, NewKept
<1>7. files' = [files EXCEPT ![call.id] = f]
  BY <1>1 DEF CardCreate
<1>8. f.bytes = [p \in 0 .. s.size - 1 |-> Zero]
  BY <1>5
<1> QED BY <1>6, <1>7, <1>8

\* What the card writes is what the caller gave.
LEMMA WriteIs ==
  ASSUME IInv, CardWrite
  PROVE  \E f : /\ files[call.id] # None /\ CardFileOK(f)
                /\ SettingsOf(f) = SettingsOf(files[call.id])
                /\ f.bytes = Store!Overlaid(files[call.id].bytes, call.offset, call.data)
                /\ files' = [files EXCEPT ![call.id] = f]
<1>1. /\ call \in Calls /\ request.op = call.op /\ request.id = call.id /\ call.op = "write"
      /\ request # None /\ call.id \in FileIds
  BY ReplyTyped DEF CardWrite
<1>2. /\ request.header = ThreeBytes(call.offset) \o ThreeBytes(Len(call.data))
      /\ request.data = call.data
  BY <1>1 DEF IInv, RequestOK
<1>3. call.offset \in Nat /\ call.data \in Seq(Contents)
  BY <1>1, FilesAssumption DEF Calls
<1>4. From(request) = call.offset
  <2> DEFINE h == request.header
             m == call.offset
             n == Len(call.data)
  <2>1. m \in Nat /\ n \in Nat /\ h = ThreeBytes(m) \o ThreeBytes(n)
    BY <1>2, <1>3
  <2> HIDE DEF h, m, n
  <2>2. FromThree(<<h[1], h[2], h[3]>>) = m
    BY <2>1, HeaderBack
  <2> QED BY <2>2 DEF From, h, m
<1> DEFINE old == files[call.id]
           f == [old EXCEPT !.bytes = Store!Overlaid(@, call.offset, call.data)]
<1>5. old # None /\ CardFileOK(old)
  BY <1>1 DEF CardWrite, WithinFile, IInv, FilesOK
<1>6. /\ CardFileOK(f) /\ SettingsOf(f) = SettingsOf(old)
      /\ f.bytes = Store!Overlaid(old.bytes, call.offset, call.data)
  <2> HIDE DEF old
  <2> QED BY <1>3, <1>5, OverlaidKept
<1>7. files' = [files EXCEPT ![call.id] = f]
  BY <1>1, <1>2, <1>4 DEF CardWrite
<1> QED BY <1>5, <1>6, <1>7

LEMMA CardInv ==
  ASSUME IInv, Card
  PROVE  IInv'
<1>1. CASE CardCreate
  <2>1. /\ Reply(TRUE, <<>>) /\ request.op \in Changing /\ call.id \in FileIds
    BY <1>1, ReplyTyped DEF CardCreate, Changing
  <2>2. FilesOK'
    BY <1>1, <2>1, CreateIs, ReplaceInv DEF IInv
  <2> QED BY <2>1, <2>2, ChangeInv
<1>2. CASE CardDelete
  <2>1. /\ Reply(TRUE, <<>>) /\ request.op \in Changing /\ request.id \in FileIds
        /\ files' = [files EXCEPT ![request.id] = None]
    BY <1>2, ReplyTyped DEF CardDelete, Changing
  <2>2. FilesOK'
    BY <2>1, ReplaceInv DEF IInv
  <2> QED BY <2>1, <2>2, ChangeInv
<1>3. CASE CardWrite
  <2>1. /\ Reply(TRUE, <<>>) /\ request.op \in Changing /\ call.id \in FileIds
    BY <1>3, ReplyTyped DEF CardWrite, Changing
  <2>2. FilesOK'
    BY <1>3, <2>1, WriteIs, ReplaceInv DEF IInv
  <2> QED BY <2>1, <2>2, ChangeInv
<1>4. CASE CardRead
  <2> DEFINE data == Store!Part(files[request.id].bytes, From(request), Length(request))
  <2>1. Reply(TRUE, data) /\ UNCHANGED files /\ WithinFile /\ request.op = "read"
    BY <1>4 DEF CardRead
  <2>2. request # None /\ call.op = "read" /\ request.id = call.id
    BY <2>1, ReplyTyped
  <2>3. /\ progress.left > 0 /\ progress.offset \in Nat /\ progress.left \in Nat
        /\ request.header = ThreeBytes(progress.offset) \o ThreeBytes(Count(progress.left))
    BY <2>2 DEF IInv, RequestOK, ProgressOK
  <2>4. Count(progress.left) \in Nat
    BY <2>3, FilesAssumption DEF Count, Smaller
  <2>5. From(request) = progress.offset /\ Length(request) = Count(progress.left)
    BY <2>3, <2>4, HeaderBack DEF From, Length
  <2>6. /\ files[call.id] # None
        /\ progress.offset + Count(progress.left) <= SizeOf(files[call.id])
        /\ data = Store!Part(files[call.id].bytes, progress.offset, Count(progress.left))
    BY <2>1, <2>2, <2>5 DEF WithinFile
  <2> HIDE DEF data
  <2> QED BY <2>1, <2>2, <2>3, <2>6, SameFilesInv DEF ReadSettings, Reads
<1>5. CASE CardSettings
  <2> DEFINE data == <<files[request.id].type>> \o files[request.id].header
  <2>1. Reply(TRUE, data) /\ UNCHANGED files /\ request.op = "settings" /\ files[request.id] # None
    BY <1>5 DEF CardSettings
  <2>2. call.op = "settings" /\ request.id = call.id
    BY <2>1, ReplyTyped
  <2>3. data = <<files[call.id].type>> \o files[call.id].header
    BY <2>2
  <2> HIDE DEF data
  <2> QED BY <2>1, <2>2, <2>3, SameFilesInv DEF ReadSettings, Reads
<1>6. CASE CardRefuse
  BY <1>6, SameFilesInv DEF CardRefuse
<1> QED BY <1>1, <1>2, <1>3, <1>4, <1>5, <1>6 DEF Card

\* The method is over.
LEMMA EndInv ==
  ASSUME IInv, NEW value, End(value)
  PROVE  IInv'
<1>1. /\ call' = None /\ request' = None /\ response' = None /\ progress' = NotReading
      /\ UNCHANGED files
  BY DEF End
<1>2. FilesOK'
  BY <1>1 DEF IInv, FilesOK, CardFileOK, SizeOf
<1>3. ProgressOK'
  BY <1>1 DEF ProgressOK, Reads, ReadSoFar, NotReading
<1> QED BY <1>1, <1>2, <1>3 DEF IInv, RequestOK, ResponseOK

\* What read_file_data has after a chunk.
LEMMA ChunkJoined ==
  ASSUME IInv, response # None, response.ok, call.op = "read"
  PROVE  /\ call \in Calls /\ call # None /\ call.id \in FileIds /\ files[call.id] # None
         /\ Progressed.offset \in Nat /\ Progressed.left \in Nat /\ Progressed.offset > 0
         /\ Progressed.offset + Progressed.left = call.size
         /\ Progressed.offset <= SizeOf(files[call.id])
         /\ Progressed.ret = Store!Part(files[call.id].bytes, 0, Progressed.offset)
<1> DEFINE o == progress.offset
           l == progress.left
           c == Count(progress.left)
           file == files[call.id]
           bytes == file.bytes
<1>1. call # None /\ call \in Calls /\ Chunked
  BY DEF IInv, ResponseOK
<1>2. /\ o \in Nat /\ l \in Nat /\ o + l = call.size
      /\ o = 0 => progress.ret = <<>>
      /\ o > 0 => progress.ret = Store!Part(bytes, 0, o)
  BY <1>1 DEF IInv, ProgressOK, ReadSoFar
<1>3. l > 0 /\ file # None /\ o + c <= SizeOf(file) /\ response.data = Store!Part(bytes, o, c)
  BY <1>1 DEF Chunked
<1>4. c \in Nat /\ c > 0 /\ c <= l
  BY <1>2, <1>3, FilesAssumption DEF Count, Smaller
<1>5. call.id \in FileIds
  BY <1>1 DEF Calls
<1>6. SizeOf(file) \in Nat /\ bytes \in [0 .. SizeOf(file) - 1 -> Contents]
  <2>1. CardFileOK(file)
    BY <1>3, <1>5 DEF IInv, FilesOK
  <2> HIDE DEF file
  <2> QED BY <2>1, KeptTyped DEF CardFileOK
<1>7. /\ Progressed.offset = o + c /\ Progressed.left = l - c
      /\ Progressed.ret = progress.ret \o response.data
  BY DEF Progressed
<1> HIDE DEF o, l, c, file, bytes
<1>8. Store!Part(bytes, 0, o) \o Store!Part(bytes, o, c) = Store!Part(bytes, 0, o + c)
  <2> DEFINE size == SizeOf(file)
  <2>1. size \in Nat /\ bytes \in [0 .. size - 1 -> Contents] /\ o + c <= size
    BY <1>3, <1>6
  <2> HIDE DEF size
  <2> QED BY <1>2, <1>4, <2>1, PartsJoined
<1>9. progress.ret = Store!Part(bytes, 0, o)
  <2>1. CASE o = 0
    BY <1>2, <2>1 DEF Store!Part
  <2> QED BY <1>2, <2>1
<1>10. Progressed.ret = Store!Part(bytes, 0, o + c)
  BY <1>3, <1>7, <1>8, <1>9
<1>11. o + c \in Nat /\ o + c > 0 /\ l - c \in Nat /\ (o + c) + (l - c) = call.size
  BY <1>2, <1>4
<1> QED BY <1>1, <1>3, <1>5, <1>7, <1>10, <1>11 DEF file, bytes

LEMMA NextChunkInv ==
  ASSUME IInv, NextChunk
  PROVE  IInv'
<1>1. response # None /\ response.ok /\ call.op = "read" /\ Progressed.left > 0
  BY DEF NextChunk
<1>2. CASE ~FitsThree(Progressed.offset)
  BY <1>2, EndInv DEF NextChunk
<1>3. CASE FitsThree(Progressed.offset)
  <2>1. /\ progress' = Progressed /\ response' = None /\ UNCHANGED <<files, call, result>>
        /\ request' = [op |-> "read", id |-> call.id,
                       header |-> ThreeBytes(Progressed.offset)
                                    \o ThreeBytes(Count(Progressed.left)),
                       data |-> <<>>]
    BY <1>3 DEF NextChunk, SendRead, Send
  <2>2. /\ call \in Calls /\ call # None /\ call.id \in FileIds /\ files[call.id] # None
        /\ Progressed.offset \in Nat /\ Progressed.left \in Nat /\ Progressed.offset > 0
        /\ Progressed.offset + Progressed.left = call.size
        /\ Progressed.offset <= SizeOf(files[call.id])
        /\ Progressed.ret = Store!Part(files[call.id].bytes, 0, Progressed.offset)
    BY <1>1, ChunkJoined
  <2>3. FilesOK' /\ ResponseOK'
    BY <2>1 DEF IInv, FilesOK, CardFileOK, SizeOf, ResponseOK
  <2>4. RequestOK'
    BY <1>1, <2>1, <2>2 DEF RequestOK
  <2>5. ProgressOK'
    BY <1>1, <2>1, <2>2 DEF ProgressOK, Reads, ReadSoFar, SizeOf
  <2> QED BY <2>1, <2>2, <2>3, <2>4, <2>5 DEF IInv
<1> QED BY <1>2, <1>3

LEMMA StepInv ==
  ASSUME IInv, [Next]_vars
  PROVE  IInv'
<1>1. CASE UNCHANGED vars
  BY <1>1 DEF vars, IInv, FilesOK, CardFileOK, SizeOf, RequestOK, ResponseOK, Chunked, ProgressOK,
              Reads, ReadSoFar
<1>2. CASE CardError
  BY <1>2, EndInv DEF CardError
<1>3. CASE ReturnChange
  BY <1>3, EndInv DEF ReturnChange
<1>4. CASE ReturnSettings
  BY <1>4, EndInv DEF ReturnSettings
<1>5. CASE ReturnData
  BY <1>5, EndInv DEF ReturnData
<1>6. CASE ReturnEmpty
  BY <1>6, EndInv DEF ReturnEmpty
<1>7. CASE DeviceFails
  BY <1>7, EndInv DEF DeviceFails
<1> QED BY <1>1, <1>2, <1>3, <1>4, <1>5, <1>6, <1>7, CallerInv, CardInv, NextChunkInv DEF Next, Host

-----------------------------------------------------------------------------
(* What follows from the invariant                                         *)

LEMMA Invariant == Spec => []IInv
BY InitInv, StepInv, PTL DEF Spec

\* What read_file_data has read is as long as its offset is.
LEMMA ReadLength ==
  ASSUME IInv
  PROVE  Len(progress.ret) = progress.offset
<1> DEFINE o == progress.offset
<1>1. o \in Nat
  BY DEF IInv, ProgressOK
<1>2. CASE o = 0
  BY <1>2 DEF IInv, ProgressOK
<1>3. CASE o > 0
  <2> DEFINE file == files[call.id]
             bytes == file.bytes
             part == Store!Part(bytes, 0, o)
  <2>1. Reads
    BY <1>3 DEF IInv, ProgressOK, NotReading
  <2>2. file # None /\ o <= SizeOf(file) /\ progress.ret = part
    BY <1>3, <2>1 DEF IInv, ProgressOK, ReadSoFar, Reads
  <2>3. call.id \in FileIds
    BY <2>1 DEF IInv, Reads, Calls
  <2>4. SizeOf(file) \in Nat /\ bytes \in [0 .. SizeOf(file) - 1 -> Contents]
    <3>1. CardFileOK(file)
      BY <2>2, <2>3 DEF IInv, FilesOK
    <3> HIDE DEF file
    <3> QED BY <3>1, KeptTyped DEF CardFileOK
  <2> HIDE DEF o, file, bytes
  <2>5. part \in [1 .. o -> Contents]
    BY <1>1, <2>2, <2>4 DEF Store!Part
  <2> HIDE DEF part
  <2>6. part \in Seq(Contents) /\ Len(part) = o
    BY <1>1, <2>5
  <2> QED BY <2>2, <2>6 DEF o
<1> QED BY <1>1, <1>2, <1>3

\* Files stay within their types: every file of the card has the bytes its settings
\* promise, whatever create_standard_file, write_file_data and delete_file did to it, and a
\* command is on its way only for the method on the stack.
THEOREM TypeCorrect == Spec => []TypeOK
<1>1. IInv => TypeOK
  <2> SUFFICES ASSUME IInv PROVE TypeOK
    OBVIOUS
  <2>1. ASSUME NEW id \in FileIds, files[id] # None PROVE FileOK(files[id])
    <3> DEFINE f == files[id]
    <3>1. CardFileOK(f)
      BY <2>1 DEF IInv, FilesOK
    <3> HIDE DEF f
    <3>2. f.type \in {Standard} \cup OtherTypes /\ f.header \in Seq(Numbers)
      BY <3>1 DEF CardFileOK, KeptFiles
    <3>3. Len(f.header) = 6
      BY <3>1, <3>2, IsLongExactly DEF CardFileOK
    <3>4. DOMAIN f.bytes = 0 .. SizeOf(f) - 1
      BY <3>1 DEF CardFileOK
    <3>5. FileOK(f)
      BY <3>2, <3>3, <3>4 DEF FileOK
    <3> QED BY <3>5 DEF f
  <2> QED BY <2>1, ReadLength DEF TypeOK, IInv, RequestOK, ResponseOK, ProgressOK
<1> QED BY <1>1, Invariant, PTL

\* read_file_data never loses, repeats or misplaces a byte between two chunks, for any
\* file size and any chunk size.
THEOREM ReadSoFarCorrect == Spec => []ReadSoFar
<1>1. IInv => ReadSoFar
  BY DEF IInv, ProgressOK
<1> QED BY <1>1, Invariant, PTL

-----------------------------------------------------------------------------
(* The file methods do what FileStore promises.                            *)

\* A method that changed nothing so far has not been carried out.
LEMMA BeginStep ==
  ASSUME IInv, NEW method \in Calls, Begin(method)
  PROVE  Store!Invoke
<1>1. /\ call = None /\ call' # None /\ response' = None /\ result' = None /\ UNCHANGED files
  BY BeginTyped DEF Begin
<1> QED BY <1>1 DEF Store!Invoke, View, SettingsOf

LEMMA CallerStep ==
  ASSUME IInv, Caller
  PROVE  Store!Invoke \/ Store!Refuse
<1>1. PICK id \in FileIds :
        \/ \E e \in Modes, p \in PermissionSets, n \in Sizes :
             CreateStandardFile(id, [type |-> Standard, encryption |-> e, permissions |-> p,
                                     size |-> n])
        \/ GetFileSettings(id) \/ DeleteFile(id)
        \/ \E offset \in Offsets, data \in Datas : WriteFileData(id, offset, data)
        \/ \E size \in Sizes : ReadFileData(id, size)
  BY DEF Caller
<1>2. CASE Refuse
  BY <1>2 DEF Refuse, Store!Refuse, View, SettingsOf
<1>3. ASSUME NEW method \in Calls, Begin(method) PROVE Store!Invoke
  BY <1>3, BeginStep
<1>4. ASSUME NEW e \in Modes, NEW p \in PermissionSets, NEW n \in Sizes,
             CreateStandardFile(id, [type |-> Standard, encryption |-> e, permissions |-> p,
                                     size |-> n])
      PROVE  Store!Invoke \/ Store!Refuse
  <2> DEFINE s == [type |-> Standard, encryption |-> e, permissions |-> p, size |-> n]
  <2>1. [op |-> "create", id |-> id, settings |-> s] \in Calls
    BY DEF Calls
  <2> QED BY <1>2, <1>3, <1>4, <2>1 DEF CreateStandardFile
<1>5. ASSUME NEW op \in {"settings", "delete"}, Begin([op |-> op, id |-> id])
      PROVE  Store!Invoke
  <2>1. [op |-> op, id |-> id] \in Calls
    BY DEF Calls
  <2> QED BY <1>3, <1>5, <2>1
<1>6. ASSUME NEW offset \in Offsets, NEW data \in Datas, WriteFileData(id, offset, data)
      PROVE  Store!Invoke \/ Store!Refuse
  <2>1. [op |-> "write", id |-> id, offset |-> offset, data |-> data] \in Calls
    BY DEF Calls
  <2> QED BY <1>2, <1>3, <1>6, <2>1 DEF WriteFileData
<1>7. ASSUME NEW size \in Sizes, ReadFileData(id, size)
      PROVE  Store!Invoke
  <2>1. [op |-> "read", id |-> id, size |-> size] \in Calls
    BY DEF Calls
  <2> QED BY <1>3, <1>7, <2>1 DEF ReadFileData
<1>8. CASE GetFileSettings(id)
  BY <1>5, <1>8 DEF GetFileSettings
<1>9. CASE DeleteFile(id)
  BY <1>5, <1>9 DEF DeleteFile
<1> QED BY <1>1, <1>4, <1>6, <1>7, <1>8, <1>9

\* What the caller sees of the files after one of them changed.
LEMMA ViewAfter ==
  ASSUME NEW id \in FileIds, NEW f, files' = [files EXCEPT ![id] = f],
         files \in [FileIds -> KeptFiles \cup {None}],
         NEW v, v = IF f = None THEN None
                    ELSE [settings |-> SettingsOf(f), bytes |-> f.bytes]
  PROVE  [i \in FileIds |-> View(i)]' = [[i \in FileIds |-> View(i)] EXCEPT ![id] = v]
<1>1. ASSUME NEW i \in FileIds, i # id PROVE View(i)' = View(i)
  BY <1>1 DEF View, SettingsOf
<1>2. View(id)' = v
  BY DEF View, SettingsOf
<1> QED BY <1>1, <1>2

\* A method of the caller's is carried out.
LEMMA Change ==
  ASSUME IInv, NEW op \in Changing, Reply(TRUE, <<>>), request.op = op
  PROVE  /\ Store!Pending(op) /\ UNCHANGED <<call, result>>
         /\ (call # None /\ call.op \in Changing /\ response # None /\ response.ok)'
<1>1. /\ call # None /\ request.op = call.op /\ response = None /\ UNCHANGED <<call, result>>
      /\ response' = [ok |-> TRUE, data |-> <<>>]
  BY ReplyTyped
<1>2. [ok |-> TRUE, data |-> <<>>] # None
  <2>1. <<>> \in Seq(Contents \cup Nat)
    OBVIOUS
  <2>2. [ok |-> TRUE, data |-> <<>>] \in Responses
    BY <2>1 DEF Responses
  <2> QED BY <2>2, NoneAssumption
<1>3. response' # None /\ response'.ok
  BY <1>1, <1>2
<1> QED BY <1>1, <1>3 DEF Store!Pending

LEMMA CardStep ==
  ASSUME IInv, Card
  PROVE  Store!Create \/ Store!Write \/ Store!Delete \/ UNCHANGED Store!vars
<1>1. files \in [FileIds -> KeptFiles \cup {None}]
  BY DEF IInv, FilesOK
<1>2. CASE CardCreate
  <2>1. /\ Reply(TRUE, <<>>) /\ request.op = "create" /\ "create" \in Changing
        /\ call.id \in FileIds /\ files[call.id] = None
    BY <1>2, ReplyTyped DEF CardCreate, Changing
  <2>2. PICK f : /\ CardFileOK(f) /\ SettingsOf(f) = call.settings
                 /\ f.bytes = [p \in 0 .. call.settings.size - 1 |-> Zero]
                 /\ files' = [files EXCEPT ![call.id] = f]
    BY <1>2, CreateIs
  <2>3. f # None
    BY <2>2, KeptTyped
  <2>4. [i \in FileIds |-> View(i)]'
          = [[i \in FileIds |-> View(i)] EXCEPT ![call.id] = Store!NewFile(call.settings)]
    <3> DEFINE new == [settings |-> SettingsOf(f), bytes |-> f.bytes]
    <3>1. [i \in FileIds |-> View(i)]' = [[i \in FileIds |-> View(i)] EXCEPT ![call.id] = new]
      <4>1. files' = [files EXCEPT ![call.id] = f] /\ call.id \in FileIds /\ f # None
        BY <2>1, <2>2, <2>3
      <4> QED BY <1>1, <4>1, ViewAfter
    <3>2. new = Store!NewFile(call.settings)
      BY <2>2 DEF Store!NewFile
    <3> HIDE DEF new
    <3> QED BY <3>1, <3>2
  <2>5. ~Store!Existing(call.id)
    BY <2>1 DEF Store!Existing, View
  <2>6. Store!Create
    BY <2>1, <2>4, <2>5, Change DEF Store!Create
  <2> QED BY <2>6
<1>3. CASE CardWrite
  <2>1. Reply(TRUE, <<>>) /\ request.op = "write" /\ "write" \in Changing /\ call.id \in FileIds
    BY <1>3, ReplyTyped DEF CardWrite, Changing
  <2>2. PICK f : /\ files[call.id] # None /\ CardFileOK(f)
                 /\ SettingsOf(f) = SettingsOf(files[call.id])
                 /\ f.bytes = Store!Overlaid(files[call.id].bytes, call.offset, call.data)
                 /\ files' = [files EXCEPT ![call.id] = f]
    BY <1>3, WriteIs
  <2> DEFINE old == View(call.id)
             new == [settings |-> SettingsOf(f), bytes |-> f.bytes]
  <2>3. f # None /\ CardFileOK(files[call.id])
    BY <1>1, <2>1, <2>2, KeptTyped DEF IInv, FilesOK
  <2>4. old # None /\ old = [settings |-> SettingsOf(files[call.id]), bytes |-> files[call.id].bytes]
    BY <2>2, <2>3, KeptTyped DEF View
  <2>5. [i \in FileIds |-> View(i)]' = [[i \in FileIds |-> View(i)] EXCEPT ![call.id] = new]
    BY <1>1, <2>1, <2>2, <2>3, ViewAfter
  <2>6. new = [old EXCEPT !.bytes = Store!Overlaid(@, call.offset, call.data)]
    BY <2>2, <2>4
  <2>7. Store!Existing(call.id) /\ [i \in FileIds |-> View(i)][call.id] = old
    BY <2>1, <2>4 DEF Store!Existing
  <2>8. [i \in FileIds |-> View(i)]' = [[i \in FileIds |-> View(i)] EXCEPT
                                          ![call.id].bytes = Store!Overlaid(@, call.offset, call.data)]
    <3> HIDE DEF old, new
    <3> QED BY <2>1, <2>5, <2>6, <2>7
  <2>9. Store!Write
    BY <2>1, <2>7, <2>8, Change DEF Store!Write
  <2> QED BY <2>9
<1>4. CASE CardDelete
  <2>1. /\ Reply(TRUE, <<>>) /\ request.op = "delete" /\ "delete" \in Changing
        /\ call.id \in FileIds /\ files[call.id] # None
        /\ files' = [files EXCEPT ![call.id] = None]
    BY <1>4, ReplyTyped DEF CardDelete, Changing
  <2>2. [i \in FileIds |-> View(i)]' = [[i \in FileIds |-> View(i)] EXCEPT ![call.id] = None]
    BY <1>1, <2>1, ViewAfter
  <2>3. Store!Existing(call.id)
    <3>1. CardFileOK(files[call.id])
      BY <2>1 DEF IInv, FilesOK
    <3>2. View(call.id) # None
      BY <2>1, <3>1, KeptTyped DEF View
    <3> QED BY <2>1, <3>2 DEF Store!Existing
  <2>4. Store!Delete
    BY <2>1, <2>2, <2>3, Change DEF Store!Delete
  <2> QED BY <2>4
<1>5. ASSUME NEW ok \in BOOLEAN, NEW data, Reply(ok, data), UNCHANGED files,
             ~ok \/ request.op \notin Changing
      PROVE  UNCHANGED Store!vars
  <2>1. /\ request.op = call.op /\ response = None /\ UNCHANGED <<call, result>>
        /\ response' = [ok |-> ok, data |-> data]
    BY <1>5, ReplyTyped
  <2>2. ~(call # None /\ call.op \in Changing /\ response # None /\ response.ok)
    BY <2>1
  <2>3. ~(call # None /\ call.op \in Changing /\ response # None /\ response.ok)'
    BY <1>5, <2>1
  <2>4. UNCHANGED [i \in FileIds |-> View(i)]
    BY <1>5 DEF View, SettingsOf
  <2> QED BY <2>1, <2>2, <2>3, <2>4 DEF Store!vars
<1>6. CASE CardRead \/ CardSettings \/ CardRefuse
  BY <1>5, <1>6 DEF CardRead, CardSettings, CardRefuse, Changing
<1> QED BY <1>2, <1>3, <1>4, <1>6 DEF Card

\* A method returns or raises.
LEMMA EndStep ==
  ASSUME call # None, NEW value, End(value)
  PROVE  /\ call # None /\ call' = None /\ UNCHANGED [i \in FileIds |-> View(i)]
         /\ result' = value
         /\ ~(call # None /\ call.op \in Changing /\ response # None /\ response.ok)'
BY DEF End, View, SettingsOf

LEMMA RaiseStep ==
  ASSUME call # None, End(Store!Raised)
  PROVE  Store!Raise
BY EndStep DEF Store!Raise

LEMMA HostStep ==
  ASSUME IInv, Host
  PROVE  Store!Return \/ Store!Raise \/ UNCHANGED Store!vars
<1>1. response # None => call # None
  BY DEF IInv, ResponseOK
<1>2. CASE CardError
  BY <1>1, <1>2, RaiseStep DEF CardError
<1>3. CASE ReturnChange
  <2>1. /\ call # None /\ call.op \in {"create", "write", "delete"} /\ response # None /\ response.ok
        /\ End(Store!Returned(<<>>))
    BY <1>1, <1>3 DEF ReturnChange, Changing
  <2>2. Store!Answer = <<>>
    BY <2>1 DEF Store!Answer
  <2>3. Store!Return
    BY <2>1, <2>2, EndStep DEF Store!Return, Changing
  <2> QED BY <2>3
<1>4. CASE ReturnSettings
  <2> DEFINE settings == ParseSettings(response.data)
  <2>1. /\ call # None /\ call.op = "settings" /\ call \in Calls
        /\ End(IF settings.type = Standard THEN Store!Returned(settings) ELSE Store!Raised)
        /\ files[call.id] # None
        /\ response.data = <<files[call.id].type>> \o files[call.id].header
    BY <1>1, <1>4 DEF ReturnSettings, IInv, ResponseOK
  <2>2. call.id \in FileIds
    BY <2>1 DEF Calls
  <2>3. settings = SettingsOf(files[call.id]) /\ CardFileOK(files[call.id])
    BY <2>1, <2>2 DEF SettingsOf, IInv, FilesOK
  <2>4. View(call.id) # None /\ View(call.id).settings = settings
    BY <2>1, <2>3, KeptTyped DEF View
  <2> HIDE DEF settings
  <2>5. CASE settings.type = Standard
    <3>1. End(Store!Returned(settings))
      BY <2>1, <2>5
    <3>2. Store!Existing(call.id) /\ Store!Answer = settings
      BY <2>1, <2>2, <2>4 DEF Store!Existing, Store!Answer
    <3>3. Store!Return
      BY <2>1, <3>1, <3>2, EndStep DEF Store!Return
    <3> QED BY <3>3
  <2>6. CASE settings.type # Standard
    BY <2>1, <2>6, RaiseStep
  <2> QED BY <2>5, <2>6
<1>5. CASE NextChunk
  <2>1. call # None /\ call.op = "read"
    BY <1>1, <1>5 DEF NextChunk
  <2>2. CASE FitsThree(Progressed.offset)
    <3>1. UNCHANGED <<files, call, result>>
      BY <1>5, <2>2 DEF NextChunk
    <3>2. UNCHANGED [i \in FileIds |-> View(i)]
      BY <3>1 DEF View, SettingsOf
    <3>3. /\ ~(call # None /\ call.op \in Changing /\ response # None /\ response.ok)
          /\ ~(call # None /\ call.op \in Changing /\ response # None /\ response.ok)'
      BY <2>1, <3>1 DEF Changing
    <3> QED BY <3>1, <3>2, <3>3 DEF Store!vars
  <2>3. CASE ~FitsThree(Progressed.offset)
    BY <1>5, <2>1, <2>3, RaiseStep DEF NextChunk
  <2> QED BY <2>2, <2>3
<1>6. CASE ReturnData
  <2>1. /\ response # None /\ response.ok /\ call.op = "read" /\ Progressed.left = 0
        /\ End(Store!Returned(Progressed.ret))
    BY <1>6 DEF ReturnData
  <2>2. /\ call # None /\ call.id \in FileIds /\ files[call.id] # None
        /\ Progressed.offset \in Nat
        /\ Progressed.offset + Progressed.left = call.size
        /\ Progressed.offset <= SizeOf(files[call.id])
        /\ Progressed.ret = Store!Part(files[call.id].bytes, 0, Progressed.offset)
    BY <2>1, ChunkJoined
  <2>3. Progressed.offset = call.size
    BY <2>1, <2>2
  <2>4. CardFileOK(files[call.id])
    BY <2>2 DEF IInv, FilesOK
  <2>5. /\ View(call.id) # None /\ View(call.id).settings.size = SizeOf(files[call.id])
        /\ View(call.id).bytes = files[call.id].bytes
    BY <2>2, <2>4, KeptTyped DEF View
  <2>6. /\ Store!Existing(call.id)
        /\ call.size <= [i \in FileIds |-> View(i)][call.id].settings.size
        /\ Store!Answer = Progressed.ret
    BY <2>1, <2>2, <2>3, <2>5 DEF Store!Existing, Store!Answer
  <2>7. Store!Return
    BY <2>1, <2>2, <2>6, EndStep DEF Store!Return
  <2> QED BY <2>7
<1>7. CASE ReturnEmpty
  <2>1. call # None /\ call.op = "read" /\ progress.left = 0 /\ End(Store!Returned(progress.ret))
    BY <1>7 DEF ReturnEmpty
  <2>2. call.size = 0 /\ progress.ret = <<>>
    BY <2>1 DEF IInv, ProgressOK, Reads, ReadSoFar
  <2>3. Store!Answer = <<>>
    BY <2>1, <2>2 DEF Store!Answer, Store!Part
  <2>4. Store!Return
    BY <2>1, <2>2, <2>3, EndStep DEF Store!Return
  <2> QED BY <2>4
<1> QED BY <1>2, <1>3, <1>4, <1>5, <1>6, <1>7 DEF Host

\* The files of the card at the start are of types the caller does not create.
LEMMA InitStep == Init => Store!Init
<1> SUFFICES ASSUME Init PROVE Store!Init
  OBVIOUS
<1>1. call = None /\ response = None /\ result = None
  BY DEF Init
<1>2. ASSUME NEW id \in FileIds, View(id) # None PROVE View(id).settings.type # Standard
  <2> DEFINE f == files[id]
  <2>1. f # None /\ CardFileOK(f) /\ f.type \in OtherTypes
    BY <1>2, InitInv DEF View, IInv, FilesOK, Init
  <2>2. View(id).settings = SettingsOf(f)
    BY <2>1 DEF View
  <2> HIDE DEF f
  <2> QED BY <2>1, <2>2, KeptTyped, FilesAssumption
<1> QED BY <1>1, <1>2 DEF Store!Init, Store!Existing

\* Every file method does what FileStore promises, whatever the card refuses and whatever
\* the device loses: a file is changed as a whole or not at all, and what is returned is
\* what the file holds.
THEOREM FileStoreCorrect == Spec => IsFileStore
<1>1. IInv /\ [Next]_vars => [Store!Next]_(Store!vars)
  <2> SUFFICES ASSUME IInv, [Next]_vars PROVE [Store!Next]_(Store!vars)
    OBVIOUS
  <2>1. CASE UNCHANGED vars
    BY <2>1 DEF vars, Store!vars, View, SettingsOf
  <2>2. CASE Caller
    BY <2>2, CallerStep DEF Store!Next
  <2>3. CASE Card
    BY <2>3, CardStep DEF Store!Next
  <2>4. CASE Host
    BY <2>4, HostStep DEF Store!Next
  <2>5. CASE DeviceFails
    BY <2>5, RaiseStep DEF DeviceFails, Store!Next
  <2> QED BY <2>1, <2>2, <2>3, <2>4, <2>5 DEF Next
<1> QED BY <1>1, InitStep, Invariant, PTL DEF Spec, IsFileStore, Store!Spec
=============================================================================
