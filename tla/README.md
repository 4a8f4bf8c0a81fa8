# python-desfire in TLA+

python-desfire talks to MIFARE DESFire cards: it authenticates with one of the
card's keys, derives a session key, and protects or checks the commands and
answers that follow. This directory holds a model of the library, the runs that
check it with TLC, and proofs that TLAPS checks.

Paths below are those of the repository, `src/desfire/DESFire.py` and so on, and
`DESFire.py:225` is a line of it.

## The system

| Component | State it keeps | Operations | Talks to |
|---|---|---|---|
| `DESFire` (`DESFire.py`) | `is_authenticated`, `session_key`, `last_auth_key_id`, `last_selected_application` | `authenticate`, 18 other public methods, `_transceive`, `_preprocess`, `_communicate`, `_postprocess` | a `Device`; the `DESFireKey` that is the session key |
| `DESFireKey` (`key.py`) | `key_bytes`, `iv`, sizes, subkeys | `set_key`, `cipher_init`, `clear_iv`, `calculate_cmac`, `encrypt_msg`, `encrypt`, `decrypt` | `CMAC`, ciphers |
| `CMAC` (`cmac.py`) | two subkeys | construction | cipher |
| `util.py` | none | `get_list`, `get_int`, `CRC32`, `xor_lists`, `get_ciphermod` | |
| `diversify.py` | none (changes its argument) | `diversify_key` | `DESFireKey` |
| `Device`, `PCSCDevice`, `PN532UARTDevice` (`devices/`) | the connection | `transceive`, and for PN532 `wait_for_card` and its frames | the reader |
| `KeySettings`, `FilePermissions`, `FileSettings`, `CardVersion` (`schemas/`) | fields | `parse`, `get_...` | |
| the card | selected application, session, IV, keys | commands | not part of the repository |

The library is synchronous and single threaded: a public method of `DESFire`
sends a frame, waits, reads the answer, and may send another (`0xAF`, the second
half of the handshake, the next chunk of a file). What makes it hard is that
there are two parties with a state each, and a chain of IVs that has to advance
on both sides alike:

* a frame can be lost in either direction or arrive damaged, the card can leave the
  field, and it can refuse a command. The card's state then changes without the object being
  told, or the other way round;
* an exception leaves a method in the middle. What it assigned before stays, what
  it would have assigned after does not: `_postprocess` moves the IV before it
  compares the MAC (225, 253), `select_application` clears the session after the
  answer only (856-858), an error answer clears nothing (89);
* the key object that `authenticate` is given becomes the session key and is
  overwritten (447-452), while the caller still holds it;
* `change_key` builds its message from what the object remembers (689, 703), the
  card reads it by what the card remembers.

Correct means, per component:

* *session*: the object believes in a session only if the card began it with the
  same key and key number; the two are never in two different sessions; after
  trouble a mismatch is noticed, never overlooked;
* *secure messaging*: the IVs agree as long as nothing went wrong; an answer
  accepted with MAC or CRC is the card's answer to this command; an encrypted
  answer brings the IVs together again;
* *handshake*: the right key is accepted whatever the key object did before;
* *commands*: the recorded application is the selected one; `change_key` uses the
  format the card expects; reading a file returns all of it in order;
* *devices*: every call returns or raises, and never with the answer to an earlier
  command;
* *keys, codecs, diversification*: sizes fit the cipher, or it is found out before there
  is a session; what is parsed is what was encoded; the caller's list of diversification
  data is padded at most once, and different data gives different keys.

## The modules

| Module | What it is |
|---|---|
| `Desfire` | the `DESFire` object, its `DESFireKey` objects, the link and the card: sessions, IVs, MACs |
| `DesfireProofs` | theorems about `Desfire`: typing, the agreement of the two sessions, the application and the keys the object believes in |
| `AnswerProofs` | on top of it: what an answer proves, and whether the two chains of IVs are in step |
| `Device` | abstract: what `Device.transceive` promises whoever calls it |
| `PN532` | the serial driver that implements it, with the line and the chip |
| `PN532Proofs` | the inductive invariant of the driver, and the refinement |
| `KeyCrypto` | `DESFireKey` by its lengths: which key, IV and data a cipher takes |
| `KeyCryptoProofs` | its theorems, for key data, challenges, answers and chunks of any length |
| `EncryptedAnswer` | the ENCRYPTED branch of `_postprocess` byte by byte: padding, CRC, stripped zeros |
| `EncryptedAnswerProofs` | its theorems, for data, blocks and CRCs of any length |
| `FileStore` | abstract: what the file methods promise the caller |
| `Encodings` | numbers, permissions and file settings between value and bytes |
| `Files` | the file methods by what they carry, against a card that keeps files |
| `FilesProofs` | encodings come back, and `Files` implements `FileStore` |
| `KeySettings` | key settings between the caller's list and the byte on the card |
| `KeySettingsProofs` | its theorems, for every list of members |
| `Diversify` | `diversify_key` and the caller's list it pads |
| `DiversifyProofs` | its theorems, for data and blocks of any length and any number of calls |
| `MCDesfire`, `MCKeyCrypto`, `MCEncryptedAnswer`, `MCFiles`, `MCDiversify` | values of the constants for TLC, and the symmetry |

`Desfire` is the composition of host, link and card. The others look at one of its parts
more closely: `PN532` at the link, `KeyCrypto` at the keys, `EncryptedAnswer` at one
answer, `Files`, `KeySettings` and `Diversify` at the data, which `Desfire` leaves out.

### Desfire

State. `is_authenticated`, `session_key`, `last_selected_application` and
`last_auth_key_id` are the attributes of that name. `key_bytes` and `iv` are
functions on the key objects: `session_key` *is* one of the caller's objects, as in
the code, so aliasing needs no extra modelling. `built` remembers what the caller
constructed an object with. `call` is the method on the stack with its local
variables (`rx` is `rx_mode`, `got` is `result` of `_communicate`, `ret` is `ret`
of `read_file_data`, `key` and `rndB` are those of `authenticate`), `returned` is
what the last method returned. `request` and `response` are the frame under way.
The `card_...` variables are the card. `established`, `answered`, `gap` and `doubt`
are history: they are never read by a guard or by an assignment to another kind of
variable.

Actions. One action per public method (`GetRealUid`, `ChangeKey`, ...) holds what
the method does up to the first frame: its guard, `_preprocess`, the request. One
action per way to handle an answer holds the rest, up to the next frame or the
return: `ReceiveMore` (the `0xAF` loop), `ReceiveError`, `RefuseAnswer`, `Return`,
`ReturnChunk` and `NextChunk` (the loop of `read_file_data`), `ReceiveChallenge`,
`RefuseChallenge`, `ReceiveProof`, `RefuseProof`, `NoAnswer` (the device raised, or returned an
empty list which has no status byte). `HostAfterReturn` is what
`select_application` and `change_key` assign after their answer. The methods that
raise without sending anything change no state and are the states in which the
action is disabled.

Cryptography is symbolic. An IV is the chain of what went through the cipher since
the IV was cleared; a MAC or a ciphertext is the key, the chain it ends, and the
mode. Two are equal only if key and chain are, which is what makes the real blocks
useful. An encrypted answer carries its own chain in its last block, so it sets the
IV whatever it decrypts to (253). RndA and RndB are named by the number of the call
and of the challenge they are drawn in: they are fresh.

Key objects and key data have a type, `2K3DES` but for those in `AesKeys` and `TripleKeys`.
It matters in two places: a handshake of the wrong type is refused (369-378), and
`change_key` on the card level replaces the key number by `0x80` or `0x40` if the new key is
of AES or 3K3DES (703-709): `KeyNumber` keeps the number on the wire and its type flag apart
from the number the method was called for (`call.kid`), which is the one that
`IsSameKey` compares.

The card and the link are external, modelled from what the library expects of them:
the card checks a command's MAC against its own chain, refuses what it does not
accept (and may then end its session or keep it), answers in one frame or two, and
can lose power. The link loses a frame, or damages the data or the MAC, CRC or ciphertext
of an answer (`Spoil`); a damaged challenge is the same as one decrypted with a wrong key,
a damaged command the same as one refused. It does not delay or duplicate a frame, as a PC/SC transmission returns its own answer or fails. What a serial reader
may do beyond that is the subject of `PN532`.

Left out: parameters that only travel (offsets, file ids, key versions), padding and
byte lengths (they are the subject of `Files`, `KeySettings` and `KeyCrypto`), logging,
the `challenge` argument of `authenticate` (fresh by default, "not recommended"), the
`native=False` branch of `_communicate`, which no method uses. Exceptions in the parsing of
an answer that was already accepted (`get_key_version`, `get_key_setting`,
`get_file_settings`) change no state. A file of size 0 is read without sending anything.

Of `CHANGE_KEY` the card is taken to be strict: it refuses a key number it has not, a message
in the wrong format, another current key than its own, and a type flag that is not the new
key's on the card level, or any in an application. The library does not say so; that is what
`RightKeyChanged` assumes of a card.

Two constants are about the card. `LongAnswers` are the methods it answers in two frames.
`MacsPlain` are the methods it sends a MAC with although the library asks for a PLAIN
answer: `format_card`, `delete_file` and `read_file_data` of a plain file ask for one
within a session (1181, 527, 1055), and the library then neither verifies what comes with
it nor moves its IV. What a card does there is not in the repository, so both are modelled,
and the properties that depend on it say so (see `InStep` and `NothingMissed` below).

### Device and PN532

`Device` is the contract between `DESFire` and a reader: commands are numbered,
`transceive` returns the answer to its own command, which the card then carried out, or
nothing; a command given up may still be carried out later, but at most once, and never
after a later one. `Desfire` has the same link: `Lose` and `NoAnswer` are `Fail`.

`PN532` is `devices/pn532.py`. `call` is the function on the stack and which of its two
waits it is in, `todo` the functions the constructor has still to call, `buffer` the
input buffer of the serial port. `SendCommand` is `_send_command` up to its first wait
(`_write_data` empties the buffer, then writes); the other actions of `Host` are what a
wait ends in: the timeout, the six bytes of an acknowledgment or others, an answer that
passes the checks of `_read_frame` and `_process_response` or does not. `Raise` and
`ReturnNothing` differ in what the constructor makes of them: a firmware version that
does not come is an error (65), a configuration that is not confirmed is not (70), an
exception in the last function is caught (224). A constructor that raised is called
again. `wait_for_card` sends nothing and waits for the answer to the last command of the
constructor.

There is no clock. A wait times out whenever the buffer is empty, so every frame may be
late. Frames are symbols; neither acknowledgment nor answer carries a number that the
driver can see (`n` is read by the properties only). A read that asks for more than a
frame takes all there is (`ReadsExactly` tells the two kinds apart: 13 bytes for the
firmware version, 9 for the configuration, otherwise up to 39 or 264). A read that ends
within a frame leaves noise (`Leftovers`). Chip, card and line are external: the chip
acknowledges a command and drops the one before, an exchange may fail though the card
carried it out, the line loses or damages a frame and keeps the order. A write that
raises `OSError` (135) is a lost command.

Two things about the caller are parameters. A behaviour begins with one of the `Habits`:
if `waits` is TRUE, a new exchange is sent only when nothing is on the line, else at any
time. `ReadTimeout`: the port was opened with a read timeout, as in
`examples/minimal_pn532.py`. The library enforces neither.

`Device` has 0 where the driver has no answer; the refinement (`Contract`) maps a call of
`transceive` to `busy`, and the number of the answer to `result`. `KeepsContract` is the
refinement for callers that wait.

### KeyCrypto

`keys` are the key objects by the lengths of `key_bytes`, `iv`, `iv0` and the subkeys, with
`key_size` and `block_size`; a byte list is its length. The operators are the methods of
`DESFireKey` (`SetKey`, `CipherInit`, `AfterMac`, `Encrypted`, ...), with the fallbacks of
`get_ciphermod` and the truncation of `xor_lists`. The actions are both halves of
`authenticate` and, in a session, the kinds of commands and answers: `Send` is
`_preprocess`, `ReceiveMac` and `ReceiveEncrypted` are `_postprocess`. A cipher, external,
refuses a key or an IV of a wrong length and data that is not whole blocks (`CanCrypt`);
`raised` tells an exception of a cipher from one of a length and from a refusal of the
card. `Stray` are answers of lengths no encrypted answer has, which a damaged frame may
bring.

### EncryptedAnswer

One answer: the card appends a CRC and pads with zeros, or with `0x80` and zeros, to whole
blocks of its cipher (`Block`). `_postprocess` completes the ciphertext to whole blocks of
sixteen bytes whatever the cipher (245-249, `HostBlock`); what it added decrypts to noise
(`HostPadding`). A block may be damaged, or decrypted with a wrong IV, to noise in which
any byte may be zero, and bytes of the block chained to it are wrong then.
`Stripped`, `CrcReceived`, `Content` and `CrcMatches` are lines 255-274. A CRC byte is
zero, or names its place and the data it was computed from.

### FileStore and Files

`FileStore` is what a caller may rely on: a file is settings and bytes; a creation, a write
or a deletion takes effect at once and at most once (`done`); a method returns only after
its effect, `get_file_settings` and `read_file_data` return what the file holds at that
moment, and a method that raises may or may not have taken effect.

`Files` is the code: `create_standard_file`, `write_file_data`, `read_file_data` with its
loop (`ioffset` and `length` are `progress.offset` and `progress.left`), `get_file_settings`
and `delete_file`, with settings, offsets and lengths as bytes (`Encodings`:
`get_list`, `FilePermissions`, `FileSettings.parse`). The card keeps the bytes of the
settings as they were sent and refuses what lies outside a file; it may refuse anything,
and a command or an answer may be lost. `read_file_data` takes the length from settings
the caller has, which may be of a file deleted since. The refinement (`Store`) parses the
settings the card keeps and takes a file to be changed when the card answers.

### KeySettings and Diversify

`KeySettings` follows a list of members to a byte and back: `GetSettings` adds the values
(`Total`, the loop) and keeps eight bits, `ParseSettings` takes every member that has a bit
in common. A bit is named by its value.
`create_application`, `get_key_setting` and `change_key_settings` carry them; the caller
may change a list it has read and write it back.

`Diversify` is `diversify_key`: `contents` are the caller's lists, which are padded in
place, `derived` the keys of the calls so far. Two CMACs are equal only if base key, subkey
and padded data are.

### Bounds

| Run | Bounds | Distinct states |
|---|---|---|
| `session` | 4 methods, 2 faults, 2 applications, 2 key numbers, 2 key objects, 2 keys | 1,250,000 |
| `every_method` | 4 methods of 19, 1 fault, 1 key object | 432,000 |
| `returns` | 3 methods, 1 fault, 3 key objects of two types, files of 2 chunks of 1 or 2 frames, 2 payloads | 143,000 |
| `pn532` | 6 commands, 1 frame lost or damaged | 749,000 |
| `key_sizes` | 2 key objects of 15 kinds, 4 kinds on the card, writes of 1, 44 and 52 bytes | 6,732 |
| `encrypted_answer` | cipher blocks of 4, blocks of 8 for the host, CRCs of 2, data of up to 6 bytes of three values | 1,260,000 |
| `files` | 2 files, bytes of two values, sizes up to 8, chunks of 3 | 31,740 |
| `key_settings` | all 2^4 sets of flags with 3 policies, 2 members added or removed | 103,000 |
| `diversify` | 3 calls, 2 lists, 2 base keys, data of up to 5 bytes, blocks of 2 | 581,000 |

In `Desfire`, `MaxCalls` bounds the methods called (a handshake counts as one), `MaxFaults`
the losses, damages, resets and refusals without cause, `MaxChunks` the chunks of a file.
Three calls suffice for a handshake, a command that goes wrong and one that shows it; four
add the repair, or a second handshake. Two applications, two key numbers, two key objects
and two keys are the smallest sets on which a wrong one can be taken. One payload is enough
where the chain tells the answers apart; two are used where the order of the data is
checked. Key objects of two types are in `returns`, where three methods are a handshake, a
selection whose answer is lost and a `change_key`, or a handshake between them. Symmetry
permutes payloads, and key objects of one type.

`MaxFrames` bounds the commands of `PN532`, `MaxFaults` its lost and damaged frames. Three
commands construct the object; two more are the least with which one answer can be taken
for another, a third shows the effect of what the second left in the buffer.

`KeyCrypto`, `EncryptedAnswer`, `Files` and `KeySettings` have no bound on the number of
steps. A byte of `Files` has two values, so three bytes hold numbers up to 7 and every
carry and the overflow of `get_list` occur; a chunk of 3 does not divide the sizes 4, 7
and 8. Data in `EncryptedAnswer` may be shorter and longer than a CRC and end anywhere in a
block, and an answer has one cipher block, half a block of the host, or two. The `Writes` of
`key_sizes` are the shortest, the longest that `write_file_data` accepts (52) and the longest
whose frame fits in any mode (44). Data in `Diversify` may be empty, shorter than, as long as and longer than what it
is padded to.

## The runs

| Run | Checks | Shows |
|---|---|---|
| `session` | `AuthAgreement`, `SessionAgreement`, `Protocol`, `RightKeyProves`, `NothingMissed`, `EncryptedResyncs` | handshakes, protected, encrypted and PLAIN answers, selection and key changes with two faults at any points |
| `every_method` | `TypeOK`, `InStep`, `GapHasCause`, `BelievedApp` | all 19 methods in any order, with every file mode, and a MAC on the answer to `delete_file`; every action fires |
| `returns` | `AnswerAuthentic`, `ChangeKeyAgrees`, `RightKeyChanged`, `EveryCallReturns` | files of two chunks of one or two frames, two payloads; keys of two types changed on the card and in an application; liveness, without symmetry |
| `pn532` | `TypeOK`, `KeepsContract`, `EveryCallReturns` | the driver returns, and implements `Device` if the caller waits for silence |
| `key_sizes` | `TypeOK`, `SessionFits`, `RefusedInTime`, `WholeKeySent`, `TestedKeysWork`, `OnlyShortAnswersShortenIv`, `OnlyWritesTooLong` | key data of every length: what a cipher does not take is found before the card begins a session; which frames are too long |
| `encrypted_answer` | `NeverWrong`, `AcceptedExactly` | stripped zeros never make a wrong answer of a right one; which right answers are refused |
| `files` | `TypeOK`, `ReadSoFar`, `Completes`, `IsFileStore` | `Files` implements `FileStore`; every read ends |
| `key_settings` | `TypeOK`, `ProperListArrives`, `FlagsReported` | settings written from lists of the caller and from lists read |
| `diversify` | `PaddedOnce`, `UniqueKeys`, `SameKeyFromFreshLists` | different cards get different keys, the same card the same |
| `lost_proof` | `PlainAnswerIsData` (violated) | see below |
| `stale_answer` | `AnswerToThisCommand` (violated) | see below |
| `key_types` | `EveryKeyWorks` (violated) | see below |

`InStep` and `BelievedApp` exclude what they must: `gap` is TRUE after something went
wrong in a session and nothing has repaired it, `doubt` after the card changed its
application without the object being told (a lost `SELECT_APPLICATION` answer, a
reset, the deletion of the selected application). `NothingMissed` is what holds in
the excluded part: while `gap` is TRUE no protected answer is accepted.

`gap` does not look at the IVs. It becomes TRUE with a lost frame, a reset, a refusal of a
command that was right, the deletion of the selected application, an answer whose data is
not what the card answered, an encrypted answer that came without its ciphertext, and an
answer with a MAC that the method takes PLAIN (`delete_file`, `format_card`, `read_file_data`
of a plain file), as the library then does not move its IV and the card does; it becomes FALSE
with a handshake and with an encrypted answer. `InStep` says that the IVs are the same otherwise, and
`GapHasCause` that `InStep` does not excuse more than it has to: before the first loss or
damage only a refusal, such a deletion and such a MAC make `gap` TRUE. `every_method` has both
kinds of cards at once: the answer to `delete_file` has a MAC, the others that are taken
PLAIN have none.

`NothingMissed` is about cards that send a MAC or a CRC with every answer in a session
(`MacsPlain` is all three methods in `session`): if an answer has neither, its loss leaves
the IVs together and nothing shows it later.

`change_key` is told apart by two properties. `ChangeKeyAgrees` is about its message: it has the
format of the session's own key exactly if the caller named the key of the card's session,
and where host and card know the same application, it has the number the caller named and
the flag of the new type. Where they do not (the answer to `select_application` was lost, or
the selected application deleted), the number and flag may be wrong: `change_key(1, ...)` with
an AES key then sends `0x80`, key 0. `RightKeyChanged` says what comes of that: the card
refuses it, and never changes another key than the one the caller named.

`OnlyWritesTooLong` is exact. The limit of 52 that `write_file_data` checks (1138) is for the
data with its header; MAC, or CRC and padding, are added after. Every frame of more than 60
bytes is a write of more than 44, protected or encrypted; such a frame has up to 68 bytes
with a MAC and 72 encrypted, where the docstring (1124) promises 60.

`AcceptedExactly` is exact too. An undamaged answer is accepted if and only if its CRC does
not end with a zero byte, it is not padded with `0x80`, and it needs no padding by the host:
an answer of an odd number of DES blocks is always refused.

Fairness. `returns` assumes weak fairness of `Host` and of `Card`: Python runs a
method to its end, and a device answers or gives up (PC/SC fails, the PN532 driver
times out); a card that does not answer is `Lose`, after which `NoAnswer` is enabled.
Nothing is assumed of the caller or of the link. A session of calls ends when the
bound is used up (`Rest`), so deadlock is checked. `pn532` assumes weak fairness
of the driver alone: `_wait_ready` ends by the clock; a read ends because the port has a
read timeout (`ReadTimeout`), which the library leaves to its caller: without one, the
default of pyserial, `_read_data` waits for all the bytes it asks for. `files` assumes weak
fairness of card, device and host together: one of them goes on. `encrypted_answer` and
`diversify` are over after one answer and after three calls, so they are not checked for
deadlock.

### What the violated properties show

* `lost_proof`: if the answer to the second frame of the handshake is lost, the card
  is in a session and the object is not. A method that falls back to PLAIN then takes
  the eight bytes of the card's MAC for data: `get_file_ids` returns them as file ids.
* `stale_answer`: a `transceive` that times out returns an empty list (260), which
  `_communicate` turns into an exception. If the caller goes on, the acknowledgment and
  the answer of the command given up may arrive after the next call has emptied the
  buffer, and are read as its own. Within a session the MAC shows it (`NothingMissed`),
  without one nothing does.
* `key_types`: `iv0` is as long as the key (`key.py:57`), so a 2K3DES key of 16 bytes and a
  3K3DES key of 24 have an IV no cipher takes, and the handshake raises. `README.md:24` names
  both as supported; `README.md:39` says that DES and AES-128 were tested, and those work
  (`TestedKeysWork`).

Smaller disagreements that the models show on the way, without a run of their own:

* the key object given to `authenticate` becomes the session key (447): to authenticate
  again the caller needs a new one. `examples/personalize.py` says so ("Create a new one as
  key data would be overriden by session data");
* `DESFire.py:207` says "PLAIN response is only possible if we're not authenticated";
  `delete_file`, `format_card`, `read_file_data` of a plain file and `change_key` of the
  session's own key ask for one within a session;
* an answer whose CRC ends with a zero byte is refused, as the byte is taken for padding
  (256); padding of `0x80` and zeros is not removed at all;
* an encrypted answer of an odd number of DES blocks is padded to 16 bytes before it is
  decrypted (247), whatever the cipher, and so always refused (`AcceptedExactly`), where
  `_add_padding` is documented to complete "a multiple of the cipher block size" (112);
* writes of 45 to 52 bytes make frames longer than the 60 bytes of the docstring (1124;
  `OnlyWritesTooLong`);
* after a lost answer to `select_application` the object takes the application for the one
  before; `change_key` then puts the flags and number of the card's master key on a key of the
  application, or leaves them off (703). `RightKeyChanged` holds of a card that refuses such a flag;
* changing the master key of the card from AES or 3K3DES to 2K3DES sends the flag of the
  current type, as only the new types AES and 3K3DES replace it (704-709);
* the last eight bytes of a MAC are sent (180), the first eight compared (225): the same
  only for blocks of eight, while 179 says "Only the last 8 bytes of the CMAC are used". No
  property is about it, as the two slices settle it;
* `wait_for_card` sends nothing: it waits for the answer to the command of the constructor,
  and once that has been read and refused, or dropped with the buffer, no later call finds
  the card;
* the read timeout of the serial port is the caller's to set; its default waits for all
  bytes asked for, and `_read_data` asks for more than an answer has;
* `change_key` XORs a new key with the current one and ends with the shorter (722): a key of
  24 bytes is sent as 16 if the current one has eight, though it is taken twice;
* a parsed settings byte does not come back as it was: settings of `0x08` read and written
  again become `0x17`, as `FACTORY_DEFAULT` overlaps every flag; the policies of
  `KS_CHANGE_KEY` are tested like flags, and the one of value 0 is never parsed;
* a list given to `diversify_key` is padded in place: given again, the data counts as
  unpadded and another key comes out.

## The proofs

Every invariant and every action property that a run checks is proved, and both
refinements, for every value of the constants: numbers of calls, faults, frames, bytes, key
objects and files among them. The assumptions are the named ones of the modules
(`ConstantsAssumption`, `NoneAssumption`, `AnswerAssumption`, `FilesAssumption`,
`ByteAssumption`, `SizesAssumption`, `SettingsAssumption`, `DiversifyAssumption`); TLC
evaluates them in the runs. Where a theorem needs more of the card or of the caller, it
says so as a hypothesis, which the run's values meet; `NothingMissedCorrect`, `WholeKeySentCorrect`
and `OnlyWritesTooLongCorrect` do.

| Module | Theorems | From |
|---|---|---|
| `DesfireProofs` | `InvCorrect`, `TypeCorrect`, `ProtocolCorrect`, `AuthCorrect`, `SessionCorrect` | `Inv` |
| | `BeliefCorrect`, `BelievedAppCorrect`, `MasterOnlyCorrect`, `ChangeKeyCorrect`, `RightKeyChangedCorrect` | and `Belief`, `MasterOnly` |
| | `HandshakingCorrect`, `RightKeyCorrect` (`RightKeyProves`) | and `Handshaking` |
| `AnswerProofs` | `AnsweringCorrect`, `AnswerCorrect` (`AnswerAuthentic`), `ResyncCorrect` (`EncryptedResyncs`) | and `Answering` |
| | `InStepCorrect` | and `Stepping` |
| | `GapCorrect` (`GapHasCause`) | and `Whole`, `Sealed` |
| | `NothingMissedCorrect`, assuming `MacsPlain` has all of them | and `Chains` |
| `PN532Proofs` | `TypeCorrect`, `FreshCorrect`, `ContractKept` (`KeepsContract`) | `TypeOK`, `Numbers`, `Fresh` |
| `EncryptedAnswerProofs` | `NeverWrongCorrect`, `AcceptedExactlyCorrect` | `IInv` |
| `FilesProofs` | `TypeCorrect`, `ReadSoFarCorrect`, `FileStoreCorrect` (`IsFileStore`) | `IInv` |
| `KeyCryptoProofs` | `InvCorrect`, `TypeCorrect`, `SessionFitsCorrect`, `RefusedInTimeCorrect`, `OnlyShortAnswersCorrect`, `TestedKeysCorrect` | `IInv` |
| | `WholeKeySentCorrect`, for key data of up to 16 bytes or 24 | and `BytesKnown` |
| | `OnlyWritesTooLongCorrect`, for key data of up to 39 bytes and a RndA of up to 43 | and `BytesKnown` |
| `KeySettingsProofs` | `InvCorrect`, `TypeCorrect`, `ProperListArrivesCorrect`, `FlagsReportedCorrect` | `IInv` |
| `DiversifyProofs` | `InvCorrect`, `PaddedOnceCorrect`, `UniqueKeysCorrect`, `SameKeyCorrect` (`SameKeyFromFreshLists`) | `IInv` |

`Desfire`. `AuthAgreement` is not inductive: `ReceiveProof` believes in a session because of
an answer, so what an answer proves must be part of the invariant. `Protocol` says it:
one frame is under way, for the method on the stack (`OneFrame`); an ordinary
method sends no frame of a handshake (`InCommand`); a challenge under way is the
card's last (`InHandshake`); a proof names the RndA of this call and the RndB it
received, and the answer to it means the card began just that session (`InProof`).
The step that matters is `CardProveAgreement`: the card accepts a proof if its chain
matches, the chain names RndA and RndB, so both are those of this handshake.
`Inv` is `TypeOK /\ Protocol /\ AuthAgreement /\ SessionAgreement`. Typing needs the
other three (a frame is handled for a method that is there, a session has a key), so
`StepTyped` and `StepAgreement` both start from the whole invariant.

On top of `Inv`, `Belief` adds what the request and the answer under way say of the
application (`AppKnown` between two calls, `SelectAnswered` while one is selected) and what
`change_key` put into its message. `MasterOnly` says that a card without a selected
application is in a session with its one key, number 0; `RightKeyChanged` needs it where the
number on the wire was replaced by 0. `Handshaking` ties a challenge and a proof under way
to the keys of the two sides. `Answering` follows a protected answer from the card to the
caller: a frame that arrives carries what the card has answered so far, what was read
before is the rest of it. `Stepping` compares the two chains at every point of a method, not
only between two: the host's is the card's, or ahead of it by the frame under way.
`Whole` and `Sealed` say that before the first fault the frames of an answer, read, under way
and still on the card, add up to it, and that the last one has a MAC or a ciphertext: so
`gap` has the causes that `GapHasCause` names.
`Chains` is the opposite: once a frame is lost the two chains have an item in which they
differ, or one is longer by an item the other will never append, and no step makes them
meet but an encrypted answer.

`PN532`. `KeepsContract` is not inductive either: an acknowledgment does not say whose it is.
For a caller that waits, the line is silent when an exchange begins; `Fresh` says what
can be on it from then on: before the acknowledgment nothing acceptable arrives ahead of
it, after it only the answer to this command does. `Numbers` orders the numbers of
commands sent, on the chip and carried out. Each step of the driver is then a step of
`Device` or a stutter.

`EncryptedAnswer`. `IInv` says what a decrypted answer is made of (`Genuine`, `Undamaged`). The
position at which the stripping ends is a least number; it is obtained from the
well-foundedness of the naturals (`LeastNatural`). A CRC byte names the data it was computed
from, so a CRC that matches settles the data; and a non-zero last CRC byte stops the loop
just behind it.

`Files`. `IInv` relates what is under way to the method on the stack: a request carries the
bytes of its arguments (`RequestOK`), a chunk that arrives is that part of the file
(`Chunked`), what was read is the file up to the offset (`ReadSoFar`). With `SettingsBack`,
`HeaderBack` and `ThreeBytesBack`, by which values come back from their bytes for any size of
a byte, each step of the card is a step of `FileStore` (`CreateIs`, `WriteIs`), and each
return gives what `FileStore` allows.

`KeyCrypto`. `SessionFits` and `RefusedInTime` hold only together, and because of what the
handshake leaves of a key object that is not the session key. `KeyShape` says it: after
`cipher_init` the IV is as long as the key, except for AES, whose key data may be of any
length until a cipher is made. So the first half of the handshake either raises or lets
a key of eight bytes or AES-128 pass (`Passing`, `ChallengeEffect`); from the bytes of the two
challenges such a key gets a session key of one block (`ProofEffect`), and from then on every
command and every answer leaves a block as IV, except the one answer that is shorter
(`SendEffect`, `AnswerKeeps`). `InHandshake` has the order of the two sides: the card begins
its session after the object ended its own, and only with a proof that the key which
passed has made. The lengths of key data are a second, weaker invariant (`BytesKnown`): an
object has what it was constructed with, a size its type sets, or a session key. For
`OnlyWritesTooLongCorrect` the length of every frame is computed from its kind; the limits on
key data and RndA are the longest with which no other frame is too long.

`KeySettings`. The invariant is short: the byte on the card is `GetSettings` of the list
last written. What it means takes the arithmetic: a byte is the sum of its bits (`Digits`), no
other bits have that sum (`Composed`), so bytes without a common bit add up without a
carry (`BitsAdd`), and by induction over the number of members a list without overlap
adds up to the byte that has all their bits (`ProperSum`). `Total` is a recursive function;
that there is one (`SumsExist`, `TotalBody`) and what it computes are proved for the
numbers up to which lists are added, with `Counting`, an induction over a set of numbers.
`FlagsReportedCorrect` needs no such list: it is about every byte that overlapping lists can
have left.

`Diversify`. `IInv` joins `PaddedOnce`, which is inductive because padded data is long enough
not to be padded again (`PaddedAgain`), with `KeysKnown`: the key of a call whose list no
earlier call padded comes from what the caller put into that list. Padding says where it
begins, so no two lists are padded to the same bytes (`PadInjective`); with the subkey, which
tells padded data from whole blocks, a key gives away base key and data (`KeysDiffer`).

Only model-checked: `EveryCallReturns` and `Completes`, which are liveness and out of the
prover's reach. The three violated properties are false, so there is nothing to prove.

## Not modelled

* The subkey arithmetic of `cmac.py` and `shift_bytes`: bits within a block. `KeyCrypto`
  models their length, the other modules take a MAC for equal only if its input is.
* `CardVersion`, `to_hex_string`, the `__repr__` methods: they name and format bytes.
* The values of `DESFireCommand` and `DESFireStatus`, the exception classes: names.
* `examples/`, documentation and build files. `personalize.py` is a caller; what it does
  between two calls is within what the callers of the models may do.
* The `native=False` branch of `_communicate` and the `challenge` argument in `Desfire`
  (its length is in `KeyCrypto`).
* Two `DESFire` objects on one device, and threads: the library has neither locks nor
  asynchronous calls.
