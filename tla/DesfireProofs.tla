--------------------------- MODULE DesfireProofs ---------------------------
(***************************************************************************)
(* What holds of Desfire for every value of its constants: typing, the     *)
(* agreement of the two sessions, which application is selected, what      *)
(* change_key sends and which proofs pass.                                 *)
(***************************************************************************)
EXTENDS Desfire, TLAPS

\* The commands the card cannot read without a parameter.
Special == {"authenticate", "change_key", "select_application", "create_application",
            "delete_application"}

\* Every command the methods send is one of Commands: those without parameters the card
\* needs, and the others with theirs.
LEMMA CommandTyped ==
  ASSUME NEW op \in Ops
  PROVE  /\ op \notin Special => Command(op) \in Commands
         /\ \A k \in KeyIds : op \notin Special \/ op = "authenticate" =>
              [Command(op) EXCEPT !.kid = k] \in Commands
         /\ \A v \in KeyValues : op \notin Special =>
              [Command(op) EXCEPT !.key = v] \in Commands
         /\ \A m \in Modes : op \notin Special => [Command(op) EXCEPT !.mode = m] \in Commands
         /\ \A m \in Modes, n \in Nat : op \notin Special =>
              [Command(op) EXCEPT !.mode = m, !.part = n] \in Commands
         /\ \A a \in Apps : op \in Special \ {"authenticate", "change_key"} =>
              [Command(op) EXCEPT !.app = a] \in Commands
<1>1. Command(op) \in CommandRecords /\ Command(op).op = op
  BY DEF Command, CommandRecords, Modes, KeyTypes
<1>2. op \notin Special => Command(op) \in Commands
  BY <1>1 DEF Commands, Special
<1>3. ASSUME NEW k \in KeyIds, op \notin Special \/ op = "authenticate"
      PROVE  [Command(op) EXCEPT !.kid = k] \in Commands
  BY <1>1, <1>3 DEF Commands, CommandRecords, Special
<1>4. ASSUME NEW v \in KeyValues, op \notin Special
      PROVE  [Command(op) EXCEPT !.key = v] \in Commands
  BY <1>1, <1>4 DEF Commands, CommandRecords, Special
<1>5. ASSUME NEW m \in Modes, op \notin Special
      PROVE  [Command(op) EXCEPT !.mode = m] \in Commands
  BY <1>1, <1>5 DEF Commands, CommandRecords, Special
<1>6. ASSUME NEW m \in Modes, NEW n \in Nat, op \notin Special
      PROVE  [Command(op) EXCEPT !.mode = m, !.part = n] \in Commands
  BY <1>1, <1>6 DEF Commands, CommandRecords, Special
<1>7. ASSUME NEW a \in Apps, op \in Special \ {"authenticate", "change_key"}
      PROVE  [Command(op) EXCEPT !.app = a] \in Commands
  BY <1>1, <1>7 DEF Commands, CommandRecords, Special
<1> QED BY <1>2, <1>3, <1>4, <1>5, <1>6, <1>7

\* The key number a method is called for, if it has one.
Numbers == KeyIds \cup {None}

\* What Transceive leaves behind: a frame for the card, and the method waiting.
LEMMA TransceiveTyped ==
  ASSUME TypeOK, AuthAgreement,
         NEW kid \in Numbers, NEW cmd \in Commands, NEW tx \in Modes, NEW rx \in Modes,
         NEW ret \in Seq(Payloads), NEW left \in Nat,
         Transceive(kid, cmd, tx, rx, ret, left)
  PROVE  /\ request' \in Requests
         /\ request'.cmd = cmd
         /\ iv' \in [KeyObjs -> Seq(Items)]
         /\ call' \in Running
         /\ call'.at = "sent" /\ call'.rx = rx /\ call'.kid = kid
         /\ rx # "PLAIN" => is_authenticated
<1>1. is_authenticated => session_key \in KeyObjs
  BY DEF TypeOK, AuthAgreement
<1>2. <<"tx", cmd>> \in Items
  BY DEF Items
<1>3. is_authenticated => ChainAfterTx(cmd) \in Seq(Items)
  BY <1>1, <1>2 DEF TypeOK, ChainAfterTx
<1>4. request' \in Requests /\ request'.cmd = cmd
  BY <1>1, <1>3 DEF Transceive, Preprocess, Requests, Ciphers, TypeOK
<1>5. iv' \in [KeyObjs -> Seq(Items)]
  BY <1>1, <1>3 DEF Transceive, IvAfterPreprocess, TypeOK
<1>6. call' \in Running /\ call'.at = "sent" /\ call'.rx = rx /\ call'.kid = kid
  BY DEF Transceive, Running, CallStates, Numbers
<1>7. rx # "PLAIN" => is_authenticated
  BY DEF Transceive, CryptoAllowed
<1> QED BY <1>4, <1>5, <1>6, <1>7

\* What every public method but authenticate does first.
Ordinary(kid, cmd, tx, rx, left) ==
  /\ Invoke(cmd.op)
  /\ Transceive(kid, cmd, tx, rx, <<>>, left)
  /\ UNCHANGED hostVars

\* Which number change_key puts on the wire for the key number it is called for.
Numbered(kid, cmd) ==
  /\ HostApp # Picc => cmd.kid = kid /\ cmd.flag = "2K3DES"
  /\ HostApp = Picc /\ cmd.type # "2K3DES" => cmd.kid = 0 /\ cmd.flag = cmd.type
  /\ HostApp = Picc /\ cmd.type = "2K3DES" => cmd.kid = kid

\* What select_application and change_key put into their commands and ask for.
Detail(kid, cmd, rx, left) ==
  /\ cmd.op = "select_application" => left = 0 /\ rx = "PLAIN"
  /\ cmd.op = "change_key" =>
       /\ is_authenticated
       /\ cmd.same = (kid = last_auth_key_id)
       /\ Numbered(kid, cmd)
       /\ cmd.same => rx = "PLAIN"

\* A step of the caller constructs a key, begins a handshake, or sends an ordinary command.
LEMMA CallerStep ==
  ASSUME TypeOK, Caller
  PROVE  \/ \E o \in KeyObjs, s \in Secrets : NewKey(o, s)
         \/ \E k \in KeyIds, o \in KeyObjs : Authenticate(k, o)
         \/ \E kid \in Numbers, cmd \in Commands, tx, rx \in Modes, left \in Nat :
              /\ cmd.op \in Methods \ {"authenticate"}
              /\ Ordinary(kid, cmd, tx, rx, left)
              /\ Detail(kid, cmd, rx, left)
<1> DEFINE Sent == \E kid \in Numbers, cmd \in Commands, tx, rx \in Modes, left \in Nat :
                     /\ cmd.op \in Methods \ {"authenticate"}
                     /\ Ordinary(kid, cmd, tx, rx, left)
                     /\ Detail(kid, cmd, rx, left)
<1>1. CmacIfAuthenticated \in Modes /\ {"PLAIN", "CMAC", "ENCRYPTED"} \subseteq Modes
  BY DEF CmacIfAuthenticated, Modes
<1>2. \A kid \in Numbers, cmd \in Commands, tx, rx \in Modes :
        /\ cmd.op \in Methods \ {"authenticate"}
        /\ PerformFor(kid, cmd, tx, rx)
        /\ cmd.op \in Special => Detail(kid, cmd, rx, 0)
        => Sent
  BY DEF PerformFor, Ordinary, Detail, Special
<1>0. \A cmd \in Commands, tx, rx \in Modes :
        /\ cmd.op \in Methods \ {"authenticate"}
        /\ Perform(cmd, tx, rx)
        /\ cmd.op \in Special => Detail(cmd.kid, cmd, rx, 0)
        => Sent
  <2>1. \A cmd \in Commands : cmd.kid \in Numbers
    BY DEF Commands, CommandRecords, Numbers
  <2> QED BY <1>2, <2>1 DEF Perform
<1> HIDE DEF Sent
<1>3. ASSUME NEW op \in Methods \ Special, NEW tx \in Modes, NEW rx \in Modes,
             Perform(Command(op), tx, rx)
      PROVE  Sent
  <2> DEFINE cmd == Command(op)
  <2>1. cmd \in Commands /\ cmd.op = op
    BY CommandTyped DEF Command, Ops
  <2>2. Perform(cmd, tx, rx)
    BY <1>3
  <2> HIDE DEF cmd
  <2> QED BY <1>0, <2>1, <2>2 DEF Special
<1>4. ASSUME \/ GetRealUid \/ GetCardVersion \/ FormatCard \/ GetKeySetting
             \/ ChangeKeySettings \/ GetApplicationIds \/ GetFileIds \/ GetFileSettings
             \/ CreateStandardFile \/ DeleteFile
      PROVE  Sent
  <2>1. PICK op \in Methods \ Special, tx \in Modes, rx \in Modes : Perform(Command(op), tx, rx)
    <3>1. {"get_real_uid", "get_card_version", "format_card", "get_key_setting",
           "change_key_settings", "get_application_ids", "get_file_ids", "get_file_settings",
           "create_standard_file", "delete_file"} \subseteq Methods \ Special
      BY DEF Methods, Queries, Updates, Special
    <3>2. CASE GetRealUid BY <1>1, <3>1, <3>2 DEF GetRealUid
    <3>3. CASE GetCardVersion BY <1>1, <3>1, <3>3 DEF GetCardVersion
    <3>4. CASE FormatCard BY <1>1, <3>1, <3>4 DEF FormatCard
    <3>5. CASE GetKeySetting BY <1>1, <3>1, <3>5 DEF GetKeySetting
    <3>6. CASE ChangeKeySettings BY <1>1, <3>1, <3>6 DEF ChangeKeySettings
    <3>7. CASE GetApplicationIds BY <1>1, <3>1, <3>7 DEF GetApplicationIds
    <3>8. CASE GetFileIds BY <1>1, <3>1, <3>8 DEF GetFileIds
    <3>9. CASE GetFileSettings BY <1>1, <3>1, <3>9 DEF GetFileSettings
    <3>10. CASE CreateStandardFile BY <1>1, <3>1, <3>10 DEF CreateStandardFile
    <3>11. CASE DeleteFile BY <1>1, <3>1, <3>11 DEF DeleteFile
    <3> QED BY <1>4, <3>2, <3>3, <3>4, <3>5, <3>6, <3>7, <3>8, <3>9, <3>10, <3>11
  <2> QED BY <1>3, <2>1
<1>5. ASSUME NEW k \in KeyIds, GetKeyVersion(k)
      PROVE  Sent
  <2>2. "get_key_version" \in (Ops \cap Methods) \ Special
    BY DEF Ops, Methods, Queries, Special
  <2> DEFINE cmd == [Command("get_key_version") EXCEPT !.kid = k]
  <2>3. cmd \in Commands /\ cmd.op = "get_key_version"
    BY <2>2, CommandTyped DEF Command
  <2>4. Perform(cmd, "PLAIN", CmacIfAuthenticated)
    BY <1>5 DEF GetKeyVersion
  <2> HIDE DEF cmd
  <2> QED BY <1>1, <1>0, <2>2, <2>3, <2>4 DEF Special
<1>6. ASSUME NEW k \in KeyIds, NEW current \in KeyObjs, NEW new \in KeyObjs,
             ChangeKey(k, current, new)
      PROVE  Sent
  <2> DEFINE number == KeyNumber(k, current, new)
             same == IsSameKey(k, number.kid)
             cmd == [Command("change_key") EXCEPT
                       !.kid = number.kid, !.flag = number.flag, !.same = same,
                       !.key = key_bytes[new], !.type = KeyType(new),
                       !.old = IF same THEN None ELSE key_bytes[current]]
  <2>1. is_authenticated /\ PerformFor(k, cmd, "ENCRYPTED", IF same THEN "PLAIN" ELSE "CMAC")
    BY <1>6 DEF ChangeKey
  <2>2. same \in BOOLEAN /\ same = (k = last_auth_key_id)
    BY DEF IsSameKey
  <2>3. key_bytes[new] \in KeyValues /\ key_bytes[current] \in KeyValues
    BY <1>6 DEF TypeOK
  <2>4. KeyType(new) \in KeyTypes /\ KeyType(current) \in KeyTypes
    BY DEF KeyType, KeyTypes
  <2>5. /\ number.kid \in KeyIds /\ number.flag \in KeyTypes
        /\ HostApp # Picc => number.kid = k /\ number.flag = "2K3DES"
        /\ HostApp = Picc /\ KeyType(new) # "2K3DES" => number.kid = 0 /\ number.flag = KeyType(new)
        /\ HostApp = Picc /\ KeyType(new) = "2K3DES" => number.kid = k
    <3> HIDE DEF number
    <3>1. number = KeyNumber(k, current, new)
      BY DEF number
    <3>2. CASE HostApp # Picc
      BY <3>1, <3>2 DEF KeyNumber, KeyTypes
    <3>3. CASE HostApp = Picc /\ KeyType(new) # "2K3DES"
      BY <2>4, <3>1, <3>3, ConstantsAssumption DEF KeyNumber
    <3>4. CASE HostApp = Picc /\ KeyType(new) = "2K3DES"
      BY <2>4, <3>1, <3>4 DEF KeyNumber
    <3> QED BY <3>2, <3>3, <3>4
  <2> HIDE DEF number, same
  <2>6. /\ cmd \in Commands /\ cmd.op = "change_key" /\ cmd.same = same
        /\ cmd.kid = number.kid /\ cmd.flag = number.flag /\ cmd.type = KeyType(new)
    BY <2>2, <2>3, <2>4, <2>5 DEF Command, Commands, CommandRecords, Ops, Methods, Updates, Modes
  <2> HIDE DEF cmd
  <2>7. Detail(k, cmd, IF same THEN "PLAIN" ELSE "CMAC", 0)
    BY <2>1, <2>2, <2>5, <2>6 DEF Detail, Numbered
  <2> QED BY <1>1, <1>2, <2>1, <2>6, <2>7 DEF Methods, Updates, Numbers
<1>7. ASSUME NEW new \in KeyObjs, ChangeDefaultKey(new)
      PROVE  Sent
  <2>2. "change_default_key" \in (Ops \cap Methods) \ Special
    BY DEF Ops, Methods, Updates, Special
  <2> DEFINE cmd == [Command("change_default_key") EXCEPT !.key = key_bytes[new]]
  <2>3. cmd \in Commands /\ cmd.op = "change_default_key"
    BY <1>7, <2>2, CommandTyped DEF Command, TypeOK
  <2>4. Perform(cmd, "ENCRYPTED", "CMAC")
    BY <1>7 DEF ChangeDefaultKey
  <2> HIDE DEF cmd
  <2> QED BY <1>1, <1>0, <2>2, <2>3, <2>4 DEF Special
<1>8. ASSUME NEW a \in Apps,
             SelectApplication(a) \/ CreateApplication(a) \/ DeleteApplication(a)
      PROVE  Sent
  <2> DEFINE cmd(op) == [Command(op) EXCEPT !.app = a]
  <2>2. \A op \in {"select_application", "create_application", "delete_application"} :
          cmd(op) \in Commands /\ cmd(op).op = op /\ op \in Methods \ {"authenticate"}
    BY CommandTyped DEF Command, Ops, Methods, Updates, Special
  <2>3. \/ Perform(cmd("select_application"), "PLAIN", "PLAIN")
        \/ Perform(cmd("create_application"), "PLAIN", "CMAC")
        \/ Perform(cmd("delete_application"), "PLAIN", "CMAC")
    BY <1>8 DEF SelectApplication, CreateApplication, DeleteApplication
  <2> HIDE DEF cmd
  <2>4. \A op \in {"select_application", "create_application", "delete_application"} :
          /\ Detail(cmd(op).kid, cmd(op), "PLAIN", 0)
          /\ op # "select_application" => Detail(cmd(op).kid, cmd(op), "CMAC", 0)
    BY <2>2 DEF Detail
  <2> QED BY <1>1, <1>0, <2>2, <2>3, <2>4
<1>9. ASSUME NEW m \in FileModes, NEW chunks \in 1 .. MaxChunks, ReadFileData(m, chunks)
      PROVE  Sent
  <2>2. ReadChunk(m, 0) \in Commands /\ ReadChunk(m, 0).op = "read_file_data"
    BY CommandTyped, ConstantsAssumption
       DEF ReadChunk, Command, Ops, Methods, Queries, Special
  <2>3. chunks - 1 \in Nat
    BY ConstantsAssumption
  <2> QED
    BY <1>1, <1>9, <2>2, <2>3, ConstantsAssumption
       DEF Sent, ReadFileData, Ordinary, Detail, Methods, Queries, Numbers
<1>10. ASSUME NEW m \in FileModes, WriteFileData(m)
       PROVE  Sent
  <2>2. "write_file_data" \in (Ops \cap Methods) \ Special
    BY DEF Ops, Methods, Updates, Special
  <2> DEFINE cmd == [Command("write_file_data") EXCEPT !.mode = m]
  <2>3. cmd \in Commands /\ cmd.op = "write_file_data"
    BY <2>2, CommandTyped, ConstantsAssumption DEF Command
  <2>4. Perform(cmd, m, CmacIfAuthenticated) /\ m \in Modes
    BY <1>10, ConstantsAssumption DEF WriteFileData
  <2> HIDE DEF cmd
  <2> QED BY <1>1, <1>0, <2>2, <2>3, <2>4 DEF Special
<1> QED
  BY <1>4, <1>5, <1>6, <1>7, <1>8, <1>9, <1>10 DEF Caller, Sent

-----------------------------------------------------------------------------
(* Typing                                                                  *)

\* What the typing of a step rests on.
Base == TypeOK /\ Protocol /\ AuthAgreement

LEMMA InitTyped == Init => TypeOK
<1> SUFFICES ASSUME Init PROVE TypeOK
  OBVIOUS
<1>1. key_bytes \in [KeyObjs -> KeyValues]
  BY DEF Init, KeyValues
<1>2. <<>> \in Seq(Items) /\ <<>> \in Seq(Payloads)
  OBVIOUS
<1>3. iv \in [KeyObjs -> Seq(Items)] /\ card_iv \in Seq(Items)
  BY <1>2 DEF Init
<1>4. card_keys \in [Apps -> [KeyIds -> KeyValues]]
  BY ConstantsAssumption DEF Init, KeyValues
<1>5. answered \in [data : Seq(Payloads), sk : SessionKeys \cup {None}]
  BY <1>2 DEF Init
<1>6. calls \in 0 .. MaxCalls /\ faults \in 0 .. MaxFaults /\ card_rnd \in Nat
  BY ConstantsAssumption DEF Init
<1>7. established \subseteq Sessions /\ card_app \in Apps
  BY ConstantsAssumption DEF Init
<1> QED BY <1>1, <1>3, <1>4, <1>5, <1>6, <1>7 DEF Init, TypeOK

LEMMA NewKeyTyped ==
  ASSUME Base, NEW o \in KeyObjs, NEW s \in Secrets, NewKey(o, s)
  PROVE  TypeOK'
  BY DEF Base, TypeOK, NewKey, hostVars, cardVars, history, KeyValues

LEMMA AuthenticateTyped ==
  ASSUME Base, NEW k \in KeyIds, NEW o \in KeyObjs, Authenticate(k, o)
  PROVE  TypeOK'
<1> DEFINE cmd == [Command("authenticate") EXCEPT !.kid = k]
<1>1. cmd \in Commands
  BY CommandTyped DEF Ops, Methods, Special
<1>2. request' = [cmd |-> cmd, cipher |-> None] /\ request' \in Requests
  BY <1>1 DEF Authenticate, SendAuthenticate, Requests
<1>3. call' \in Running
  BY <1>1 DEF Authenticate, SendAuthenticate, Running, Modes, CallStates
<1> HIDE DEF cmd
<1>4. calls' \in 0 .. MaxCalls /\ answered' \in [data : Seq(Payloads), sk : SessionKeys \cup {None}]
  BY ConstantsAssumption DEF Base, TypeOK, Authenticate, SendAuthenticate, Invoke
<1> QED
  BY <1>2, <1>3, <1>4
     DEF Base, TypeOK, Authenticate, SendAuthenticate, Invoke, cardVars

LEMMA OrdinaryTyped ==
  ASSUME Base, NEW kid \in Numbers, NEW cmd \in Commands, NEW tx \in Modes,
         NEW rx \in Modes, NEW left \in Nat,
         Ordinary(kid, cmd, tx, rx, left)
  PROVE  TypeOK'
<1>1. request' \in Requests /\ iv' \in [KeyObjs -> Seq(Items)] /\ call' \in Running
  <2>1. TypeOK /\ AuthAgreement /\ <<>> \in Seq(Payloads)
    BY DEF Base
  <2>2. Transceive(kid, cmd, tx, rx, <<>>, left)
    BY DEF Ordinary
  <2> QED BY <2>1, <2>2, TransceiveTyped
<1>2. calls' \in 0 .. MaxCalls /\ answered' \in [data : Seq(Payloads), sk : SessionKeys \cup {None}]
  BY ConstantsAssumption DEF Base, TypeOK, Ordinary, Invoke
<1> QED
  BY <1>1, <1>2 DEF Base, TypeOK, Ordinary, Invoke, hostVars, cardVars

LEMMA ReceiveTyped ==
  ASSUME Base, ReceiveError \/ ReceiveMore \/ RefuseChallenge \/ NoAnswer
  PROVE  TypeOK'
<1>1. CASE ReceiveError
  BY <1>1 DEF Base, TypeOK, ReceiveError, ReceivedError, Consume, hostVars, keyVars, cardVars,
              history
<1>2. CASE ReceiveMore
  <2>1. response \in Responses /\ call \in Running
    BY <1>2 DEF Base, TypeOK, Protocol, OneFrame, ReceiveMore, Consume
  <2>2. call.got \o response.data \in Seq(Payloads)
    BY <2>1 DEF Responses, Running
  <2>3. call' \in Running
    BY <1>2, <2>1, <2>2 DEF ReceiveMore, Running
  <2>4. request' \in Requests
    BY <1>2, CommandTyped DEF ReceiveMore, Requests, Ops, Special
  <2>5. response' = None /\ TypeOK
        /\ UNCHANGED <<hostVars, keyVars, returned, cardVars, history, calls, faults>>
    BY <1>2 DEF ReceiveMore, Consume, Base
  <2> QED
    BY <2>3, <2>4, <2>5 DEF TypeOK, hostVars, keyVars, cardVars, history
<1>3. CASE RefuseChallenge
  BY <1>3 DEF Base, TypeOK, RefuseChallenge, Consume, Raise, hostVars, keyVars, cardVars, history
<1>4. CASE NoAnswer
  BY <1>4 DEF Base, TypeOK, NoAnswer, Raise, hostVars, keyVars, cardVars
<1> QED BY <1>1, <1>2, <1>3, <1>4

LEMMA PostprocessTyped ==
  ASSUME Base, Postprocess
  PROVE  /\ call \in Running /\ response \in Responses
         /\ Received \in Seq(Payloads)
         /\ iv' \in [KeyObjs -> Seq(Items)]
         /\ GapAfterPostprocess \in BOOLEAN
<1>1. call \in Running /\ response \in Responses
  BY DEF Base, TypeOK, Protocol, OneFrame, Postprocess, Consume
<1>2. Received \in Seq(Payloads)
  BY <1>1 DEF Received, Running, Responses
<1>3. <<"rx", Received>> \in Items /\ <<"raw", Received>> \in Items
  BY <1>2 DEF Items
<1>4. call.rx # "PLAIN" => session_key \in KeyObjs
  <2>1. call # None /\ call.at = "sent"
    BY <1>1, NoneAssumption DEF Postprocess
  <2> QED BY <2>1 DEF Base, TypeOK, Protocol, InCommand, AuthAgreement
<1>5. session_key \in KeyObjs => ChainAfterRx \in Seq(Items)
  BY <1>3 DEF ChainAfterRx, Base, TypeOK
<1>6. <<<<"raw", Received>>>> \in Seq(Items)
  BY <1>3
<1>7. response.cipher # None => response.cipher.chain \in Seq(Items)
  BY <1>1 DEF Responses, Ciphers
<1>8. iv' \in [KeyObjs -> Seq(Items)]
  BY <1>1, <1>4, <1>5, <1>6, <1>7
     DEF Postprocess, IvAfterPostprocess, Base, TypeOK, Running, Modes
<1>9. GapAfterPostprocess \in BOOLEAN
  BY <1>1 DEF GapAfterPostprocess, Base, TypeOK, Running, Modes
<1> QED BY <1>1, <1>2, <1>8, <1>9

LEMMA AnswerTyped ==
  ASSUME Base, RefuseAnswer \/ Return \/ ReturnChunk
  PROVE  TypeOK'
<1>1. Postprocess
  BY DEF RefuseAnswer, Return, ReturnChunk, AcceptAnswer
<1>2. /\ call \in Running /\ response \in Responses
      /\ Received \in Seq(Payloads)
      /\ iv' \in [KeyObjs -> Seq(Items)]
      /\ GapAfterPostprocess \in BOOLEAN
  BY <1>1, PostprocessTyped
<1>3. ReadSoFar \in Seq(Payloads)
  BY <1>2 DEF ReadSoFar, Running
<1>4. CASE RefuseAnswer
  BY <1>2, <1>4 DEF Base, TypeOK, RefuseAnswer, Postprocess, Consume, Raise, hostVars, cardVars
<1>5. CASE Return
  <2>1. returned' \in Returned
    BY <1>2, <1>3, <1>5 DEF Return, Returned, Running
  <2>2. /\ is_authenticated' \in BOOLEAN
        /\ session_key' \in KeyObjs \cup {None}
        /\ last_selected_application' \in Apps \cup {None}
        /\ last_auth_key_id' \in KeyIds \cup {None}
    <3>1. call.cmd \in Commands
      BY <1>2 DEF Running
    <3> QED
      BY <1>5, <3>1 DEF Base, TypeOK, Return, HostAfterReturn, hostVars, Commands
  <2>3. doubt' \in BOOLEAN
    BY <1>5 DEF Return, Base, TypeOK
  <2> QED
    BY <1>1, <1>2, <1>5, <2>1, <2>2, <2>3
       DEF Base, TypeOK, Return, Postprocess, Consume, cardVars
<1>6. CASE ReturnChunk
  <2>1. call' \in Running
    BY <1>2, <1>3, <1>6 DEF ReturnChunk, Running, CallStates
  <2> QED
    BY <1>1, <1>2, <1>6, <2>1
       DEF Base, TypeOK, ReturnChunk, Postprocess, Consume, hostVars, cardVars
<1> QED BY <1>4, <1>5, <1>6

LEMMA NextChunkTyped ==
  ASSUME Base, NextChunk
  PROVE  TypeOK' /\ call' \in Running /\ request' \in Requests
<1> DEFINE cmd == ReadChunk(call.cmd.mode, call.cmd.part + 1)
<1>1. call \in Running /\ call.cmd \in CommandRecords /\ call.left - 1 \in Nat
  BY DEF Base, TypeOK, Protocol, InCommand, NextChunk, Running, Commands
<1>2. call.cmd.mode \in Modes /\ call.cmd.part + 1 \in Nat
  BY <1>1 DEF CommandRecords
<1>3. "read_file_data" \in Ops \ Special
  BY DEF Ops, Methods, Queries, Special
<1>4. cmd \in Commands
  BY <1>2, <1>3, CommandTyped DEF ReadChunk
<1>5. Transceive(None, cmd, "PLAIN", call.rx, call.ret, call.left - 1)
  BY DEF NextChunk
<1>6. call.rx \in Modes /\ call.ret \in Seq(Payloads) /\ "PLAIN" \in Modes
  BY <1>1 DEF Running, Modes
<1> HIDE DEF cmd
<1>7. request' \in Requests /\ iv' \in [KeyObjs -> Seq(Items)] /\ call' \in Running
  <2>1. TypeOK /\ AuthAgreement
    BY DEF Base
  <2> QED BY <1>1, <1>4, <1>5, <1>6, <2>1, TransceiveTyped DEF Numbers
<1> QED
  BY <1>7 DEF Base, TypeOK, NextChunk, hostVars, cardVars, history

LEMMA ReceiveChallengeTyped ==
  ASSUME Base, ReceiveChallenge
  PROVE  TypeOK' /\ call' \in Running /\ request'.cipher \in Ciphers
<1>1. call \in Running /\ response \in Responses /\ call.key \in KeyObjs
  BY DEF Base, TypeOK, Protocol, OneFrame, InHandshake, ReceiveChallenge, Consume, Running
<1>2. response.cipher \in Ciphers /\ response.cipher.chain = <<<<"RndB", card_rnd>>>>
  BY <1>1 DEF Base, TypeOK, Protocol, OneFrame, InHandshake, ReceiveChallenge, Consume, Responses
<1> DEFINE rndB == DecryptedRndB(call.key)
           sent == Append(response.cipher.chain, <<"RndAB", <<calls, rndB>>>>)
<1>3. rndB \in Nat
  BY <1>2 DEF DecryptedRndB, Last, Base, TypeOK
<1> HIDE DEF rndB
<1>4. <<"RndAB", <<calls, rndB>>>> \in Items
  BY <1>3, ConstantsAssumption DEF Items, SessionKeys, Base, TypeOK
<1>5. response.cipher.chain \in Seq(Items) /\ sent \in Seq(Items)
  BY <1>2, <1>4 DEF Ciphers
<1>6. key_bytes[call.key] \in KeyValues
  BY <1>1 DEF Base, TypeOK
<1>7. Command("additional_frame") \in Commands
  BY CommandTyped DEF Ops, Special
<1>8. /\ iv' = [iv EXCEPT ![call.key] = response.cipher.chain]
      /\ request' = [cmd |-> Command("additional_frame"),
                     cipher |-> [key |-> key_bytes[call.key], chain |-> sent, mode |-> "ENCRYPTED"]]
      /\ call' = [call EXCEPT !.at = "proof", !.rndB = rndB]
  BY DEF ReceiveChallenge, rndB
<1>9. request' \in Requests /\ request'.cipher \in Ciphers
  BY <1>5, <1>6, <1>7, <1>8 DEF Requests, Ciphers, Modes
<1>10. call' \in Running
  BY <1>1, <1>3, <1>8 DEF Running, CallStates
<1>11. iv' \in [KeyObjs -> Seq(Items)]
  BY <1>1, <1>5, <1>8 DEF Base, TypeOK
<1> QED
  BY <1>9, <1>10, <1>11 DEF Base, TypeOK, ReceiveChallenge, Consume, hostVars, cardVars, history

LEMMA ReceiveProofTyped ==
  ASSUME Base, ReceiveProof
  PROVE  TypeOK'
<1>1. call \in Running /\ call.key \in KeyObjs
  BY DEF Base, TypeOK, Protocol, OneFrame, InHandshake, ReceiveProof, Consume, Running
<1>2. call.cmd \in Commands /\ call.cmd.kid \in KeyIds
  BY <1>1 DEF Base, Protocol, InHandshake, OneFrame, ReceiveProof, Consume, Running, Commands
<1>3. <<calls, call.rndB>> \in KeyValues
  BY <1>1, ConstantsAssumption DEF KeyValues, SessionKeys, Base, TypeOK, Running
<1>4. key_bytes' \in [KeyObjs -> KeyValues]
  BY <1>1, <1>3 DEF ReceiveProof, Base, TypeOK
<1>5. iv' \in [KeyObjs -> Seq(Items)]
  BY <1>1 DEF ReceiveProof, Base, TypeOK
<1>6. returned' \in Returned
  BY <1>2 DEF ReceiveProof, Returned, Modes
<1> QED
  BY <1>1, <1>2, <1>4, <1>5, <1>6 DEF Base, TypeOK, ReceiveProof, Consume, cardVars

LEMMA RefuseProofTyped ==
  ASSUME Base, RefuseProof
  PROVE  TypeOK'
<1>1. call \in Running /\ call.key \in KeyObjs
  BY DEF Base, TypeOK, Protocol, OneFrame, InHandshake, RefuseProof, Consume, Running
<1>2. <<"RndAB", <<calls, call.rndB>>>> \in Items
  BY <1>1, ConstantsAssumption DEF Items, SessionKeys, Base, TypeOK, Running
<1>3. ChainOfProof(call.key) \in Seq(Items)
  BY <1>1, <1>2 DEF ChainOfProof, Base, TypeOK
<1>4. iv' \in [KeyObjs -> Seq(Items)]
  BY <1>1, <1>3 DEF RefuseProof, Base, TypeOK
<1> QED
  BY <1>4 DEF Base, TypeOK, RefuseProof, Consume, Raise, hostVars, cardVars, history

LEMMA CardChallengeTyped ==
  ASSUME Base, CardChallenge
  PROVE  TypeOK' /\ response'.cipher \in Ciphers
<1>1. request \in Requests /\ request.cmd.kid \in KeyIds
  BY DEF Base, TypeOK, CardChallenge, Take, Requests, Commands
<1>2. card_keys[card_app][request.cmd.kid] \in KeyValues
  BY <1>1 DEF Base, TypeOK
<1>3. <<<<"RndB", card_rnd + 1>>>> \in Seq(Items)
  BY DEF Base, TypeOK, Items
<1>4. response' \in Responses /\ response'.cipher \in Ciphers
  BY <1>2, <1>3 DEF CardChallenge, Responses, Ciphers, Modes
<1>5. card_chal' \in Challenges /\ card_rnd' \in Nat
  BY <1>1 DEF CardChallenge, Challenges, Base, TypeOK
<1> QED
  BY <1>4, <1>5 DEF Base, TypeOK, CardChallenge, Take, hostVars, keyVars, history

LEMMA CardProveTyped ==
  ASSUME Base, NEW rndA \in 1 .. calls, CardProve(rndA)
  PROVE  TypeOK'
<1>1. card_chal \in Challenges /\ rndA \in Nat
  BY DEF Base, TypeOK, CardProve, ProofFor
<1>2. card_auth' \in Sessions
  BY <1>1 DEF CardProve, Sessions, SessionKeys, Challenges
<1>3. <<"RndB", card_chal.rnd>> \in Items /\ <<"RndAB", <<rndA, card_chal.rnd>>>> \in Items
      /\ <<"RndA", rndA>> \in Items
  BY <1>1 DEF Items, SessionKeys, Challenges
<1>4. ProofChain(rndA) \in Seq(Items) /\ Append(ProofChain(rndA), <<"RndA", rndA>>) \in Seq(Items)
  BY <1>3 DEF ProofChain
<1>5. CardKey \in KeyValues
  BY <1>1 DEF CardKey, Base, TypeOK, Challenges
<1>6. response' \in Responses
  BY <1>4, <1>5 DEF CardProve, Responses, Ciphers, Modes
<1>7. established' \subseteq Sessions
  BY <1>2 DEF CardProve, Base, TypeOK
<1>8. card_iv' \in Seq(Items)
  BY DEF CardProve
<1> QED
  BY <1>2, <1>6, <1>7, <1>8 DEF Base, TypeOK, CardProve, Take, hostVars, keyVars

LEMMA DataTyped ==
  ASSUME NEW op, NEW data \in Data(op)
  PROVE  /\ data \in Seq(Payloads)
         /\ Len(data) = 2 => <<data[1]>> \in Seq(Payloads) /\ <<data[2]>> \in Seq(Payloads)
<1>1. CASE data = <<>>
  BY <1>1
<1>2. CASE \E p \in Payloads : data = <<p>>
  BY <1>2
<1>3. CASE \E p, q \in Payloads : data = <<p, q>>
  BY <1>3
<1>4. \/ data = <<>>
      \/ \E p \in Payloads : data = <<p>>
      \/ \E p, q \in Payloads : data = <<p, q>>
  <2>1. CASE op \in LongAnswers
    BY <2>1 DEF Data
  <2>2. CASE op \notin LongAnswers
    BY <2>2 DEF Data
  <2> QED BY <2>1, <2>2
<1> QED BY <1>1, <1>2, <1>3, <1>4

LEMMA CardExecuteTyped ==
  ASSUME Base, NEW cmd, request # None, cmd = request.cmd,
         NEW data \in Data(cmd.op), CardExecute(cmd, data)
  PROVE  TypeOK' /\ response' \in Responses
<1>1. cmd \in Commands /\ cmd.op \in Methods \ {"authenticate"}
  BY DEF Base, TypeOK, Requests, CardExecute, CanExecute
<1>2. data \in Seq(Payloads) /\ (Len(data) = 2 => <<data[1]>> \in Seq(Payloads)
                                                /\ <<data[2]>> \in Seq(Payloads))
  BY DataTyped
<1>3. <<"tx", cmd>> \in Items /\ <<"rx", data>> \in Items
  BY <1>1, <1>2 DEF Items
<1>4. CardChainAfterRx(cmd, data) \in Seq(Items)
  BY <1>3 DEF CardChainAfterRx, CardChainAfterTx, Base, TypeOK
<1>5. AnswerMode(cmd) \in Modes
  BY <1>1 DEF AnswerMode, PlainOnCard, Modes, Commands, CommandRecords
<1>6. card_auth' \in Sessions \cup {None} /\ (AuthAfter(cmd) # None => card_auth.sk \in KeyValues)
  BY DEF CardExecute, AuthAfter, Base, TypeOK, Sessions, KeyValues
<1>7. \A last \in Seq(Payloads) : Answer(cmd, data, last) \in Responses
  BY <1>4, <1>5, <1>6 DEF Answer, Responses, Ciphers
<1>8. response' \in Responses /\ card_rest' \in Responses \cup {None}
  <2>1. CASE Len(data) = 2
    <3>1. response' = [status |-> "more", data |-> <<data[1]>>, cipher |-> None]
      BY <2>1 DEF CardExecute
    <3>2. card_rest' = Answer(cmd, data, <<data[2]>>)
      BY <2>1 DEF CardExecute
    <3> QED BY <1>2, <1>7, <2>1, <3>1, <3>2 DEF Responses
  <2>2. CASE Len(data) # 2
    BY <1>2, <1>7, <2>2 DEF CardExecute
  <2> QED BY <2>1, <2>2
<1>9. card_app' \in Apps
  BY <1>1, ConstantsAssumption DEF CardExecute, AppAfter, Base, TypeOK, Commands
<1>10. card_keys' \in [Apps -> [KeyIds -> KeyValues]]
  <2>1. Factories \in [KeyIds -> KeyValues]
    BY ConstantsAssumption DEF Factories, KeyValues
  <2>2. CASE cmd.op = "change_key"
    <3>1. cmd.kid \in KeyIds /\ cmd.key \in KeyValues
      BY <1>1, <2>2 DEF Commands
    <3> QED BY <2>2, <3>1 DEF CardExecute, KeysAfter, Base, TypeOK
  <2>3. CASE cmd.op \in {"create_application", "delete_application"}
    <3>1. cmd.app \in Apps
      BY <1>1, <2>3 DEF Commands
    <3> QED BY <2>1, <2>3, <3>1 DEF CardExecute, KeysAfter, Base, TypeOK
  <2>4. CASE cmd.op = "format_card"
    BY <2>1, <2>4 DEF CardExecute, KeysAfter, Base, TypeOK
  <2>5. CASE cmd.op \notin {"change_key", "create_application", "delete_application", "format_card"}
    BY <2>5 DEF CardExecute, KeysAfter, Base, TypeOK
  <2> QED BY <2>2, <2>3, <2>4, <2>5
<1>11. answered' \in [data : Seq(Payloads), sk : SessionKeys \cup {None}]
  BY <1>2 DEF CardExecute, Base, TypeOK, Sessions
<1>12. card_iv' \in Seq(Items)
  BY <1>4 DEF CardExecute, Base, TypeOK
<1>13. doubt' \in BOOLEAN /\ gap' \in BOOLEAN
  BY DEF CardExecute, DeletesSelected, Base, TypeOK
<1> QED
  BY <1>6, <1>8, <1>9, <1>10, <1>11, <1>12, <1>13
     DEF Base, TypeOK, CardExecute, Take, hostVars, keyVars

LEMMA SpoilTyped ==
  ASSUME Base, Spoil
  PROVE  TypeOK' /\ response' \in Responses
<1>1. PICK data \in Data(call.cmd.op), cipher \in {response.cipher, None} :
        response' = [response EXCEPT !.data = data, !.cipher = cipher]
  BY DEF Spoil
<1>2. response \in Responses /\ data \in Seq(Payloads)
  BY DataTyped DEF Base, TypeOK, Spoil
<1>3. response' \in Responses
  BY <1>1, <1>2 DEF Responses
<1>4. faults' \in 0 .. MaxFaults
  BY ConstantsAssumption DEF Spoil, Fault, Base, TypeOK
<1> QED
  BY <1>3, <1>4 DEF Base, TypeOK, Spoil, hostVars, keyVars, cardVars, history

LEMMA CardRestTyped ==
  ASSUME Base, CardContinue \/ CardRefuse \/ Lose \/ CardReset
  PROVE  TypeOK'
<1>1. CASE CardContinue
  BY <1>1 DEF Base, TypeOK, CardContinue, Take, hostVars, keyVars, history
<1>2. \A n \in 0 .. MaxFaults : n < MaxFaults => n + 1 \in 0 .. MaxFaults
  BY ConstantsAssumption
<1>3. CASE CardRefuse
  <2>1. faults' \in 0 .. MaxFaults
    BY <1>2, <1>3 DEF CardRefuse, CardRejectProof, CardRejectCommand, CardDecline, Fault, Base, TypeOK
  <2>2. response' \in Responses
    BY <1>3 DEF CardRefuse, Responses
  <2> QED
    BY <1>3, <2>1, <2>2 DEF Base, TypeOK, CardRefuse, Take, Verifies, hostVars, keyVars
<1>4. CASE Lose
  <2>1. faults' \in 0 .. MaxFaults
    BY <1>2, <1>4 DEF Lose, Fault, Base, TypeOK
  <2> QED
    BY <1>4, <2>1 DEF Base, TypeOK, Lose, hostVars, keyVars, cardVars
<1>5. CASE CardReset
  BY <1>2, <1>5, ConstantsAssumption
     DEF Base, TypeOK, CardReset, Fault, hostVars, keyVars
<1> QED BY <1>1, <1>3, <1>4, <1>5

\* Every step keeps the types.
LEMMA StepTyped ==
  ASSUME Base, [Next]_vars
  PROVE  TypeOK'
<1>1. CASE Caller
  <2>1. TypeOK
    BY DEF Base
  <2> QED BY <1>1, <2>1, CallerStep, NewKeyTyped, AuthenticateTyped, OrdinaryTyped
<1>2. CASE Host
  BY <1>2, ReceiveTyped, AnswerTyped, NextChunkTyped, ReceiveChallengeTyped, ReceiveProofTyped,
     RefuseProofTyped
     DEF Host
<1>3. CASE Card
  <2>1. CASE CardExecuteAny
    <3>1. PICK data \in Data(request.cmd.op) : CardExecute(request.cmd, data)
      BY <2>1 DEF CardExecuteAny
    <3> QED BY <2>1, <3>1, CardExecuteTyped DEF CardExecuteAny
  <2> QED BY <1>3, <2>1, CardChallengeTyped, CardProveTyped, CardRestTyped DEF Card
<1>4. CASE Link
  BY <1>4, CardRestTyped, SpoilTyped DEF Link
<1>5. CASE Rest \/ UNCHANGED vars
  BY <1>5 DEF Rest, vars, hostVars, keyVars, cardVars, history, Base, TypeOK
<1> QED BY <1>1, <1>2, <1>3, <1>4, <1>5 DEF Next

-----------------------------------------------------------------------------
(* The protocol: what frames can be under way, and what they prove         *)

Inv == Base /\ SessionAgreement
Agreement == Protocol /\ AuthAgreement /\ SessionAgreement

LEMMA InitAgreement == Init => Agreement
  BY DEF Init, Agreement, Protocol, OneFrame, InCommand, InHandshake, InProof, AuthAgreement,
         SessionAgreement

LEMMA NewKeyAgreement ==
  ASSUME Inv, NEW o \in KeyObjs, NEW s \in Secrets, NewKey(o, s)
  PROVE  Agreement'
<1>1. is_authenticated => key_bytes'[session_key] = key_bytes[session_key]
  BY DEF NewKey, Inv, Base, TypeOK, AuthAgreement
<1> QED
  BY <1>1
     DEF NewKey, Inv, Base, Agreement, Protocol, OneFrame, InCommand, InHandshake, InProof,
         AuthAgreement, SessionAgreement, hostVars, cardVars, history

LEMMA AuthenticateAgreement ==
  ASSUME Inv, NEW k \in KeyIds, NEW o \in KeyObjs, Authenticate(k, o)
  PROVE  Agreement'
<1>1. ~is_authenticated' /\ response' = None
  BY DEF Authenticate, SendAuthenticate, Invoke, Inv, Base, Protocol, OneFrame
<1>2. /\ call'.at = "challenge" /\ call'.key = o /\ call'.cmd.op = "authenticate"
      /\ request' = [cmd |-> call'.cmd, cipher |-> None]
      /\ call' # None
  <2> DEFINE cmd == [Command("authenticate") EXCEPT !.kid = k]
  <2>1. cmd \in Commands /\ cmd.op = "authenticate"
    BY CommandTyped DEF Ops, Methods, Special, Command
  <2>2. /\ call' = [cmd |-> cmd, kid |-> k, rx |-> "PLAIN", at |-> "challenge",
                    ret |-> <<>>, got |-> <<>>, key |-> o, rndB |-> 0, left |-> 0]
        /\ request' = [cmd |-> cmd, cipher |-> None]
    BY DEF Authenticate, SendAuthenticate
  <2> HIDE DEF cmd
  <2>3. call' \in Running
    BY <2>1, <2>2 DEF Running, Modes, CallStates
  <2>4. call'.at = "challenge" /\ call'.key = o /\ call'.cmd = cmd
    BY <2>2
  <2> QED
    BY <2>1, <2>2, <2>3, <2>4, NoneAssumption
<1>3. o # None
  BY NoneAssumption
<1>4. Protocol'
  BY <1>1, <1>2, <1>3 DEF Protocol, OneFrame, InCommand, InHandshake, InProof
<1> QED
  BY <1>1, <1>4 DEF Agreement, AuthAgreement, SessionAgreement

LEMMA OrdinaryAgreement ==
  ASSUME Inv, NEW kid \in Numbers, NEW cmd \in Commands, NEW tx \in Modes,
         NEW rx \in Modes, NEW left \in Nat,
         cmd.op \in Methods \ {"authenticate"}, Ordinary(kid, cmd, tx, rx, left)
  PROVE  Agreement'
<1>1. /\ request'.cmd = cmd /\ call' \in Running /\ call'.at = "sent"
      /\ call'.rx # "PLAIN" => is_authenticated
  <2>1. TypeOK /\ AuthAgreement /\ <<>> \in Seq(Payloads)
    BY DEF Inv, Base
  <2>2. Transceive(kid, cmd, tx, rx, <<>>, left)
    BY DEF Ordinary
  <2> QED BY <2>1, <2>2, TransceiveTyped
<1>2. cmd.op # "additional_frame"
  BY DEF Methods, Queries, Updates
<1>3. response' = None
  BY DEF Ordinary, Invoke, Inv, Base, Protocol, OneFrame
<1> QED
  BY <1>1, <1>2, <1>3, NoneAssumption
     DEF Agreement, Protocol, OneFrame, InCommand, InHandshake, InProof, AuthAgreement,
         SessionAgreement, Ordinary, Invoke, Inv, Base, hostVars, cardVars, IsProof

\* A method that ends leaves nothing under way; is_authenticated is given up or kept.
LEMMA EndAgreement ==
  ASSUME Inv, call' = None, request' = None, response' = None,
         UNCHANGED <<key_bytes, card_auth, established>>,
         is_authenticated' => UNCHANGED hostVars
  PROVE  Agreement'
  BY DEF Agreement, Protocol, OneFrame, InCommand, InHandshake, InProof, AuthAgreement,
         SessionAgreement, Inv, Base, hostVars

LEMMA HostAgreement ==
  ASSUME Inv, Host
  PROVE  Agreement'
<1>1. response # None => call # None /\ request = None
  BY DEF Inv, Base, Protocol, OneFrame
<1>2. CASE ReceiveError \/ RefuseAnswer \/ RefuseChallenge \/ RefuseProof \/ NoAnswer
  <2>1. /\ call' = None /\ request' = None /\ response' = None
        /\ UNCHANGED <<key_bytes, card_auth, established>>
        /\ UNCHANGED hostVars
    BY <1>1, <1>2
       DEF ReceiveError, ReceivedError, RefuseAnswer, RefuseChallenge, RefuseProof, NoAnswer,
           Postprocess, Consume, Raise, keyVars, cardVars, history
  <2> QED BY <2>1, EndAgreement
<1>3. CASE Return
  <2>1. /\ call' = None /\ request' = None /\ response' = None
        /\ UNCHANGED <<key_bytes, card_auth, established>>
    BY <1>1, <1>3 DEF Return, AcceptAnswer, Postprocess, Consume, cardVars
  <2>2. is_authenticated' => UNCHANGED hostVars
    BY <1>3 DEF Return, HostAfterReturn
  <2> QED BY <2>1, <2>2, EndAgreement
<1>4. CASE ReturnChunk
  <2>1. call \in Running
    BY <1>1, <1>4 DEF ReturnChunk, AcceptAnswer, Postprocess, Consume, Inv, Base, TypeOK
  <2>2. /\ call' = [call EXCEPT !.at = "next", !.ret = ReadSoFar]
        /\ call.at = "sent" /\ call.left > 0
        /\ request' = None /\ response' = None
        /\ UNCHANGED <<hostVars, key_bytes, card_auth, established>>
    BY <1>1, <1>4 DEF ReturnChunk, AcceptAnswer, Postprocess, Consume, MoreChunks, cardVars
  <2>3. call'.at = "next" /\ call'.left > 0 /\ call'.rx = call.rx
    BY <2>1, <2>2 DEF Running
  <2> QED
    BY <1>1, <1>4, <2>2, <2>3
       DEF Agreement, Protocol, OneFrame, InCommand, InHandshake, InProof, AuthAgreement,
           SessionAgreement, Inv, Base, hostVars, ReturnChunk, AcceptAnswer, Postprocess, Consume
<1>5. CASE NextChunk
  <2> DEFINE cmd == ReadChunk(call.cmd.mode, call.cmd.part + 1)
  <2>1. call \in Running /\ call.cmd \in CommandRecords /\ call.left - 1 \in Nat
    BY <1>5 DEF Inv, Base, TypeOK, Protocol, InCommand, NextChunk, Running, Commands
  <2>2. cmd \in Commands /\ cmd.op = "read_file_data"
    <3>1. call.cmd.mode \in Modes /\ call.cmd.part + 1 \in Nat
      BY <2>1 DEF CommandRecords
    <3>2. "read_file_data" \in Ops \ Special
      BY DEF Ops, Methods, Queries, Special
    <3> QED BY <3>1, <3>2, CommandTyped DEF ReadChunk, Command
  <2>3. call.rx \in Modes /\ call.ret \in Seq(Payloads) /\ "PLAIN" \in Modes
    BY <2>1 DEF Running, Modes
  <2>4. Transceive(None, cmd, "PLAIN", call.rx, call.ret, call.left - 1)
    BY <1>5 DEF NextChunk
  <2> HIDE DEF cmd
  <2>5. /\ request'.cmd = cmd /\ call' \in Running /\ call'.at = "sent"
        /\ call'.rx # "PLAIN" => is_authenticated
    <3>1. TypeOK /\ AuthAgreement
      BY DEF Inv, Base
    <3> QED BY <2>1, <2>2, <2>3, <2>4, <3>1, TransceiveTyped DEF Numbers
  <2>6. response' = None
    BY <1>5 DEF NextChunk, Inv, Base, Protocol, InCommand
  <2> QED
    BY <1>5, <2>2, <2>5, <2>6, NoneAssumption
       DEF Agreement, Protocol, OneFrame, InCommand, InHandshake, InProof, AuthAgreement,
           SessionAgreement, Inv, Base, NextChunk, hostVars, cardVars, history, IsProof
<1>6. CASE ReceiveMore
  <2>1. call \in Running
    BY <1>1, <1>6 DEF ReceiveMore, Consume, Inv, Base, TypeOK
  <2>2. /\ call' = [call EXCEPT !.got = @ \o response.data]
        /\ call.at = "sent"
        /\ request' = [cmd |-> Command("additional_frame"), cipher |-> None]
        /\ response' = None
    BY <1>6 DEF ReceiveMore, Consume
  <2>3. call'.at = "sent" /\ call'.rx = call.rx /\ call' \in Running
    <3>1. TypeOK'
      BY <1>6, ReceiveTyped DEF Inv
    <3>2. call'.at = "sent" /\ call'.rx = call.rx
      BY <2>1, <2>2 DEF Running
    <3>3. response \in Responses
      BY <1>6 DEF ReceiveMore, Consume, Inv, Base, TypeOK
    <3>4. call.got \o response.data \in Seq(Payloads)
      BY <2>1, <3>3 DEF Running, Responses
    <3> QED BY <2>1, <2>2, <3>2, <3>4 DEF Running
  <2>4. request'.cmd.op # "authenticate" /\ ~IsProof(request)'
    BY <2>2 DEF Command, IsProof
  <2> QED
    BY <1>1, <1>6, <2>2, <2>3, <2>4, NoneAssumption
       DEF Agreement, Protocol, OneFrame, InCommand, InHandshake, InProof, AuthAgreement,
           SessionAgreement, Inv, Base, ReceiveMore, hostVars, keyVars, cardVars, history, Consume
<1>7. CASE ReceiveChallenge
  <2> DEFINE rndB == DecryptedRndB(call.key)
             sent == Append(response.cipher.chain, <<"RndAB", <<calls, rndB>>>>)
  <2>1. call \in Running /\ call \in Running
    BY <1>1, <1>7 DEF ReceiveChallenge, Consume, Inv, Base, TypeOK
  <2>2. /\ call.at = "challenge" /\ response' = None
        /\ request' = [cmd |-> Command("additional_frame"),
                       cipher |-> [key |-> key_bytes[call.key], chain |-> sent,
                                   mode |-> "ENCRYPTED"]]
        /\ call' = [call EXCEPT !.at = "proof", !.rndB = rndB]
        /\ UNCHANGED <<hostVars, key_bytes, card_auth, card_chal, established, calls>>
    BY <1>7 DEF ReceiveChallenge, Consume, cardVars, history
  <2>3. /\ response.cipher.chain = <<<<"RndB", card_rnd>>>>
        /\ card_chal # None => card_chal.kid = call.cmd.kid
        /\ ~is_authenticated /\ call.key # None /\ call.cmd.op = "authenticate"
    BY <1>1, <1>7 DEF ReceiveChallenge, Consume, Inv, Base, Protocol, InHandshake
  <2>4. call'.at = "proof" /\ call'.rndB = rndB /\ call'.cmd = call.cmd /\ call'.key = call.key
    BY <2>1, <2>2 DEF Running
  <2> HIDE DEF rndB
  <2>5. Len(sent) = 2 /\ sent[2] = <<"RndAB", <<calls, rndB>>>>
    BY <2>3
  <2> HIDE DEF sent
  <2>6. /\ request'.cmd.op = "additional_frame" /\ request'.cipher # None
        /\ call' # None
    <3>1. call' \in Running /\ request'.cipher \in Ciphers
      BY <1>7, ReceiveChallengeTyped DEF Inv
    <3> QED BY <2>2, <3>1, NoneAssumption DEF Command
  <2>7. request'.cipher.chain = sent
    BY <2>2
  <2>8. OneFrame' /\ InCommand'
    BY <2>2, <2>4, <2>6 DEF OneFrame, InCommand
  <2>9. InHandshake'
    BY <2>2, <2>3, <2>4 DEF InHandshake, hostVars
  <2>10. InProof'
    BY <2>2, <2>3, <2>4, <2>5, <2>6, <2>7 DEF InProof, IsProof
  <2>11. AuthAgreement' /\ SessionAgreement'
    BY <2>2, <2>3 DEF AuthAgreement, SessionAgreement, hostVars
  <2> QED
    BY <2>8, <2>9, <2>10, <2>11 DEF Agreement, Protocol
<1>8. CASE ReceiveProof
  <2>1. call \in Running /\ call.key \in KeyObjs
    BY <1>1, <1>8
       DEF ReceiveProof, Consume, Inv, Base, TypeOK, Running, Protocol, InHandshake
  <2>2. NewSession \in established /\ card_auth \in {NewSession, None}
    BY <1>1, <1>8 DEF ReceiveProof, Consume, Inv, Base, Protocol, InProof
  <2>3. key_bytes'[call.key] = <<calls, call.rndB>>
    BY <1>8, <2>1 DEF ReceiveProof, Inv, Base, TypeOK
  <2>4. [sk |-> key_bytes[session_key], kid |-> last_auth_key_id]' = NewSession
    BY <1>8, <2>3 DEF ReceiveProof, NewSession
  <2>5. /\ call' = None /\ request' = None /\ response' = None
        /\ UNCHANGED <<card_auth, established>>
        /\ session_key' # None
    BY <1>1, <1>8, <2>1, NoneAssumption DEF ReceiveProof, Consume, cardVars
  <2> QED
    BY <2>2, <2>4, <2>5
       DEF Agreement, Protocol, OneFrame, InCommand, InHandshake, InProof, AuthAgreement,
           SessionAgreement
<1> QED BY <1>2, <1>3, <1>4, <1>5, <1>6, <1>7, <1>8 DEF Host

LEMMA CardChallengeAgreement ==
  ASSUME Inv, CardChallenge
  PROVE  Agreement'
<1>1. /\ request # None /\ call # None /\ request.cmd.op = "authenticate"
      /\ request' = None
      /\ response'.cipher # None /\ response'.cipher.chain = <<<<"RndB", card_rnd'>>>>
      /\ card_chal'.kid = request.cmd.kid
      /\ card_auth' = None
      /\ UNCHANGED <<hostVars, key_bytes, call, established>>
  <2>1. response'.cipher \in Ciphers
    BY CardChallengeTyped DEF Inv
  <2> QED
    BY <2>1, NoneAssumption
       DEF CardChallenge, Take, Inv, Base, Protocol, OneFrame, keyVars, history
<1>2. call.at = "challenge"
  <2>1. call.at \in {"sent", "next", "challenge", "proof"}
    BY <1>1 DEF Inv, Base, TypeOK, Running, CallStates
  <2>2. call.at \notin {"sent", "next"}
    BY <1>1 DEF Inv, Base, Protocol, InCommand
  <2>3. call.at # "proof"
    BY <1>1 DEF Inv, Base, Protocol, InProof, IsProof
  <2> QED BY <2>1, <2>2, <2>3
<1>3. request.cmd = call.cmd /\ ~is_authenticated /\ call.key # None /\ call.cmd.op = "authenticate"
  BY <1>1, <1>2 DEF Inv, Base, Protocol, InHandshake
<1>4. Protocol'
  BY <1>1, <1>2, <1>3 DEF Protocol, OneFrame, InCommand, InHandshake, InProof, hostVars
<1> QED
  BY <1>1, <1>3, <1>4 DEF Agreement, AuthAgreement, SessionAgreement, hostVars

\* The card verified the chain of this method's proof, so the session it begins is
\* the one the method is about to believe in.
LEMMA CardProveAgreement ==
  ASSUME Inv, NEW rndA \in 1 .. calls, CardProve(rndA)
  PROVE  Agreement'
<1>1. /\ request # None /\ call # None /\ IsProof(request)
      /\ request.cipher.chain = ProofChain(rndA) /\ card_chal # None
      /\ request' = None
      /\ card_chal' = None
      /\ card_auth' = [sk |-> <<rndA, card_chal.rnd>>, kid |-> card_chal.kid]
      /\ established' = established \cup {card_auth'}
      /\ UNCHANGED <<hostVars, key_bytes, call, calls>>
  BY DEF CardProve, ProofFor, Take, Inv, Base, Protocol, OneFrame, keyVars
<1>2. call.at = "proof"
  <2>1. call.at \in {"sent", "next", "challenge", "proof"}
    BY <1>1 DEF Inv, Base, TypeOK, Running, CallStates
  <2>2. call.at \notin {"sent", "next"}
    BY <1>1 DEF Inv, Base, Protocol, InCommand
  <2>3. call.at # "challenge"
    <3>1. call.at = "challenge" => request.cmd.op = "authenticate"
      BY <1>1 DEF Inv, Base, Protocol, InHandshake
    <3> QED BY <1>1, <3>1 DEF IsProof
  <2> QED BY <2>1, <2>2, <2>3
<1>3. ~is_authenticated /\ call.key # None /\ call.cmd.op = "authenticate"
  BY <1>1, <1>2 DEF Inv, Base, Protocol, InHandshake
<1>4. /\ card_chal.kid = call.cmd.kid
      /\ request.cipher.chain[2] = <<"RndAB", <<calls, call.rndB>>>>
  BY <1>1, <1>2 DEF Inv, Base, Protocol, InProof
<1>5. <<rndA, card_chal.rnd>> = <<calls, call.rndB>>
  <2>1. ProofChain(rndA)[2] = <<"RndAB", <<rndA, card_chal.rnd>>>>
    BY DEF ProofChain
  <2>2. <<"RndAB", <<rndA, card_chal.rnd>>>> = <<"RndAB", <<calls, call.rndB>>>>
    BY <1>1, <1>4, <2>1
  <2> QED BY <2>2
<1>6. card_auth' = NewSession /\ NewSession' = NewSession
  BY <1>1, <1>4, <1>5 DEF NewSession
<1>7. Protocol'
  BY <1>1, <1>2, <1>3, <1>6 DEF Protocol, OneFrame, InCommand, InHandshake, InProof, hostVars
<1> QED
  BY <1>1, <1>3, <1>7 DEF Agreement, AuthAgreement, SessionAgreement, hostVars

\* What the card does with any other frame, and what the link does, begins no session:
\* the card keeps the one it is in or ends it.
LEMMA OtherAgreement ==
  ASSUME Inv,
         request' = None,
         response' # None => /\ request # None
                             /\ \/ call.at \in {"sent", "next"}
                                \/ response'.status = "error",
         card_auth' \in {card_auth, None},
         card_chal' \in {card_chal, None},
         UNCHANGED <<hostVars, key_bytes, call, calls, established>>
  PROVE  Agreement'
<1>1. NewSession' = NewSession
  BY DEF NewSession
<1>2. OneFrame'
  BY DEF OneFrame, Inv, Base, Protocol
<1>3. InCommand'
  BY DEF InCommand, Inv, Base, Protocol, hostVars
<1>4. InHandshake'
  BY DEF InHandshake, Inv, Base, Protocol, hostVars
<1>5. InProof'
  BY <1>1 DEF InProof, Inv, Base, Protocol
<1>6. AuthAgreement' /\ SessionAgreement'
  BY DEF AuthAgreement, SessionAgreement, Inv, Base, hostVars
<1> QED BY <1>2, <1>3, <1>4, <1>5, <1>6 DEF Agreement, Protocol

\* A damaged answer is still an answer to the same frame.
LEMMA SpoilAgreement ==
  ASSUME Inv, Spoil
  PROVE  Agreement'
<1>1. /\ response # None /\ call.at \in {"sent", "proof"}
      /\ call # None /\ request = None
      /\ response.status # "error"
      /\ UNCHANGED <<hostVars, key_bytes, call, request, card_auth, card_chal, established, calls>>
  BY DEF Spoil, Inv, Base, Protocol, OneFrame, keyVars, cardVars, history
<1>2. NewSession' = NewSession
  BY <1>1 DEF NewSession
<1>3. OneFrame'
  BY <1>1 DEF OneFrame
<1>4. InCommand' /\ InHandshake'
  BY <1>1 DEF InCommand, InHandshake, Inv, Base, Protocol, hostVars
<1>5. InProof'
  BY <1>1, <1>2 DEF InProof, Inv, Base, Protocol
<1>6. AuthAgreement' /\ SessionAgreement'
  BY <1>1 DEF AuthAgreement, SessionAgreement, Inv, Base, hostVars
<1> QED BY <1>3, <1>4, <1>5, <1>6 DEF Agreement, Protocol

LEMMA CardAgreement ==
  ASSUME Inv, Card \/ Link
  PROVE  Agreement'
<1>1. CASE CardExecuteAny
  <2>1. PICK data \in Data(request.cmd.op) : CardExecute(request.cmd, data)
    BY <1>1 DEF CardExecuteAny
  <2>2. /\ request # None /\ request' = None
        /\ request.cmd.op \notin {"authenticate", "additional_frame"}
        /\ card_auth' \in {card_auth, None} /\ card_chal' = None
        /\ UNCHANGED <<hostVars, key_bytes, call, calls, established>>
    BY <1>1, <2>1
       DEF CardExecuteAny, CardExecute, Take, CanExecute, AuthAfter, keyVars,
           Methods, Queries, Updates
  <2>3. call # None
    BY <2>2 DEF Inv, Base, Protocol, OneFrame
  <2>4. call.at \in {"sent", "next"}
    <3>1. call.at \in {"sent", "next", "challenge", "proof"}
      BY <2>3 DEF Inv, Base, TypeOK, Running, CallStates
    <3>2. call.at # "challenge"
      BY <2>2, <2>3 DEF Inv, Base, Protocol, InHandshake
    <3>3. call.at # "proof"
      BY <2>2, <2>3 DEF Inv, Base, Protocol, InProof, IsProof
    <3> QED BY <3>1, <3>2, <3>3
  <2> QED BY <2>2, <2>4, OtherAgreement
<1>2. CASE CardContinue
  <2>1. /\ request # None /\ request' = None
        /\ request.cmd.op = "additional_frame" /\ ~IsProof(request)
        /\ UNCHANGED <<card_auth, card_chal>>
        /\ UNCHANGED <<hostVars, key_bytes, call, calls, established>>
    BY <1>2 DEF CardContinue, Take, IsProof, keyVars, history
  <2>2. call # None
    BY <2>1 DEF Inv, Base, Protocol, OneFrame
  <2>3. call.at \in {"sent", "next"}
    <3>1. call.at \in {"sent", "next", "challenge", "proof"}
      BY <2>2 DEF Inv, Base, TypeOK, Running, CallStates
    <3>2. call.at # "challenge"
      BY <2>1, <2>2 DEF Inv, Base, Protocol, InHandshake
    <3>3. call.at # "proof"
      BY <2>1, <2>2 DEF Inv, Base, Protocol, InProof
    <3> QED BY <3>1, <3>2, <3>3
  <2> QED BY <2>1, <2>3, OtherAgreement
<1>3. CASE CardRefuse
  <2>1. /\ request # None /\ request' = None /\ response'.status = "error"
        /\ card_auth' \in {card_auth, None} /\ card_chal' = None
        /\ UNCHANGED <<hostVars, key_bytes, call, calls, established>>
    BY <1>3 DEF CardRefuse, Take, keyVars, history
  <2> QED BY <2>1, OtherAgreement
<1>4. CASE Lose \/ CardReset
  <2>1. /\ request' = None /\ response' = None
        /\ card_auth' \in {card_auth, None} /\ card_chal' \in {card_chal, None}
        /\ UNCHANGED <<hostVars, key_bytes, call, calls, established>>
    BY <1>4 DEF Lose, CardReset, keyVars, cardVars, history
  <2> QED BY <2>1, OtherAgreement
<1> QED
  BY <1>1, <1>2, <1>3, <1>4, CardChallengeAgreement, CardProveAgreement, SpoilAgreement
     DEF Card, Link

\* Every step keeps the invariant.
LEMMA StepAgreement ==
  ASSUME Inv, [Next]_vars
  PROVE  Agreement'
<1>1. CASE Caller
  <2>1. TypeOK
    BY DEF Inv, Base
  <2> QED
    BY <1>1, <2>1, CallerStep, NewKeyAgreement, AuthenticateAgreement, OrdinaryAgreement
<1>2. CASE Rest \/ UNCHANGED vars
  BY <1>2
     DEF Rest, vars, hostVars, keyVars, cardVars, history, Inv, Base, Agreement, Protocol,
         OneFrame, InCommand, InHandshake, InProof, NewSession, AuthAgreement, SessionAgreement
<1> QED BY <1>1, <1>2, HostAgreement, CardAgreement DEF Next

-----------------------------------------------------------------------------
(* The theorems                                                            *)

\* The invariant is inductive.
THEOREM InvCorrect == Spec => []Inv
<1>1. Init => Inv
  BY InitTyped, InitAgreement DEF Inv, Base, Agreement
<1>2. Inv /\ [Next]_vars => Inv'
  BY StepTyped, StepAgreement DEF Inv, Base, Agreement
<1> QED
  BY <1>1, <1>2, PTL DEF Spec

\* Every variable of the DESFire object, its keys, the link and the card keeps its type.
THEOREM TypeCorrect == Spec => []TypeOK
<1>1. Inv => TypeOK
  BY DEF Inv, Base
<1> QED
  BY <1>1, InvCorrect, PTL

\* One frame is under way at a time, for the method on the stack, and a proof the card
\* answers was made in this handshake (_communicate, authenticate).
THEOREM ProtocolCorrect == Spec => []Protocol
<1>1. Inv => Protocol
  BY DEF Inv, Base
<1> QED
  BY <1>1, InvCorrect, PTL

\* Whatever is lost, refused or reset, is_authenticated is TRUE only after the card began
\* a session with this session key, for the key number in last_auth_key_id.
THEOREM AuthCorrect == Spec => []AuthAgreement
<1>1. Inv => AuthAgreement
  BY DEF Inv, Base
<1> QED
  BY <1>1, InvCorrect, PTL

\* The two sides are never in two different sessions.
THEOREM SessionCorrect == Spec => []SessionAgreement
<1>1. Inv => SessionAgreement
  BY DEF Inv
<1> QED
  BY <1>1, InvCorrect, PTL

-----------------------------------------------------------------------------
(* The selected application, and the message of change_key                 *)

SelectUnderWay == call # None /\ call.cmd.op = "select_application"

\* The frame under way is the method's own command, or asks for more of its answer.
RequestOfCall ==
  request # None =>
    request.cmd = call.cmd \/ (request.cmd.op = "additional_frame" /\ ~SelectUnderWay)

\* select_application is one command with one answer, after which the card is there.
SelectAnswered ==
  SelectUnderWay =>
    /\ call.at = "sent" /\ call.left = 0 /\ call.rx = "PLAIN"
    /\ response # None =>
         /\ response.status # "more"
         /\ response.status = "ok" => card_app = call.cmd.app

\* While select_application runs the object knows the application until the card
\* answers, and again when the answer is an error.
AppKnown ==
  /\ ~doubt
  /\ SelectUnderWay => request # None \/ (response # None /\ response.status = "error")
  => HostApp = card_app

\* The message of change_key is built from what the object still believes.
ChangeKeyRequest ==
  request # None /\ request.cmd.op = "change_key" =>
    /\ is_authenticated
    /\ request.cmd.same = (call.kid = last_auth_key_id)
    /\ Numbered(call.kid, request.cmd)

Belief == RequestOfCall /\ SelectAnswered /\ AppKnown /\ ChangeKeyRequest

LEMMA InitBelief == Init => Belief
  BY DEF Init, Belief, RequestOfCall, SelectUnderWay, SelectAnswered, AppKnown,
         ChangeKeyRequest, HostApp

\* What is under way belongs to a method on the stack, and every method to its types.
LEMMA UnderWay ==
  ASSUME Inv
  PROVE  /\ response # None => call # None /\ request = None /\ response \in Responses
         /\ request # None => call # None /\ response = None /\ request \in Requests
         /\ call # None => call \in Running /\ call.cmd \in Commands
  BY DEF Inv, Base, Protocol, OneFrame, TypeOK, Running

LEMMA CallerBelief ==
  ASSUME Inv, Belief, Caller
  PROVE  Belief'
<1>1. TypeOK /\ AuthAgreement /\ <<>> \in Seq(Payloads)
  BY DEF Inv, Base
<1>2. CASE \E o \in KeyObjs, s \in Secrets : NewKey(o, s)
  BY <1>2 DEF NewKey, Belief, RequestOfCall, SelectUnderWay, SelectAnswered, AppKnown,
              ChangeKeyRequest, Numbered, HostApp, hostVars, cardVars, history
<1>3. ASSUME NEW k \in KeyIds, NEW o \in KeyObjs, Authenticate(k, o)
      PROVE  Belief'
  <2> DEFINE cmd == [Command("authenticate") EXCEPT !.kid = k]
  <2>1. cmd.op = "authenticate"
    BY DEF Command
  <2>2. /\ call'.cmd = cmd
        /\ request' = [cmd |-> cmd, cipher |-> None]
        /\ call = None
        /\ UNCHANGED <<last_selected_application, doubt, card_app>>
    BY <1>3 DEF Authenticate, SendAuthenticate, Invoke, cardVars
  <2> HIDE DEF cmd
  <2> QED
    BY <2>1, <2>2 DEF Belief, RequestOfCall, SelectUnderWay, SelectAnswered, AppKnown,
                      ChangeKeyRequest, HostApp
<1>4. ASSUME NEW kid \in Numbers, NEW cmd \in Commands, NEW tx \in Modes,
             NEW rx \in Modes, NEW left \in Nat,
             cmd.op \in Methods \ {"authenticate"}, Ordinary(kid, cmd, tx, rx, left),
             Detail(kid, cmd, rx, left)
      PROVE  Belief'
  <2>1. Transceive(kid, cmd, tx, rx, <<>>, left)
    BY <1>4 DEF Ordinary
  <2>2. /\ request'.cmd = cmd
        /\ call'.cmd = cmd /\ call'.left = left /\ call'.rx = rx /\ call'.at = "sent"
        /\ call'.kid = kid
    BY <2>1 DEF Transceive, Preprocess
  <2>3. /\ response' = None /\ call = None /\ request' # None
        /\ UNCHANGED <<hostVars, doubt, card_app>>
    <3>1. request' \in Requests
      BY <1>1, <2>1, TransceiveTyped
    <3> QED
      BY <1>4, <3>1, UnderWay, NoneAssumption DEF Ordinary, Invoke, cardVars
  <2>4. cmd.op # "additional_frame"
    BY <1>4 DEF Methods, Queries, Updates
  <2>5. AppKnown'
    BY <2>3 DEF Belief, AppKnown, SelectUnderWay, HostApp, hostVars
  <2>6. SelectAnswered' /\ RequestOfCall'
    <3>1. RequestOfCall'
      BY <2>2 DEF RequestOfCall
    <3>2. SelectAnswered'
      BY <1>4, <2>2, <2>3 DEF Detail, SelectAnswered, SelectUnderWay
    <3> QED BY <3>1, <3>2
  <2>7. ChangeKeyRequest'
    BY <1>4, <2>2, <2>3 DEF Detail, Numbered, ChangeKeyRequest, HostApp, hostVars
  <2> QED BY <2>5, <2>6, <2>7 DEF Belief
<1> QED BY <1>1, <1>2, <1>3, <1>4, CallerStep

LEMMA HostBelief ==
  ASSUME Inv, Belief, Host
  PROVE  Belief'
<1>1. CASE ReceiveError \/ RefuseAnswer \/ RefuseChallenge \/ RefuseProof \/ NoAnswer
  <2>1. /\ call # None /\ call' = None /\ request' = None
        /\ UNCHANGED <<hostVars, card_app>>
        /\ doubt => doubt'
        /\ response # None => request = None /\ doubt' = doubt
    <3>1. CASE ReceiveError \/ RefuseAnswer \/ RefuseChallenge \/ RefuseProof
      BY <3>1, UnderWay
         DEF ReceiveError, ReceivedError, RefuseAnswer, RefuseChallenge, RefuseProof,
             Postprocess, Consume, Raise, keyVars, cardVars, history
    <3>2. CASE NoAnswer
      BY <3>2 DEF NoAnswer, Raise, cardVars, Inv, Base, TypeOK
    <3> QED BY <1>1, <3>1, <3>2
  <2>2. SelectUnderWay => (response # None /\ response.status = "error") \/ doubt'
    <3>1. CASE ReceiveError
      BY <3>1 DEF ReceiveError, ReceivedError, Consume
    <3>2. CASE NoAnswer
      BY <3>2 DEF NoAnswer, SelectUnderWay
    <3>3. CASE RefuseAnswer
      BY <3>3 DEF RefuseAnswer, Belief, SelectAnswered
    <3>4. CASE RefuseChallenge \/ RefuseProof
      BY <3>4 DEF RefuseChallenge, RefuseProof, Belief, SelectAnswered
    <3> QED BY <1>1, <3>1, <3>2, <3>3, <3>4
  <2>3. AppKnown'
    BY <2>1, <2>2 DEF Belief, AppKnown, HostApp, hostVars, SelectUnderWay
  <2> QED
    BY <2>1, <2>3
       DEF Belief, RequestOfCall, SelectUnderWay, SelectAnswered, ChangeKeyRequest
<1>2. CASE Return
  <2>1. /\ call # None /\ call' = None /\ request' = None /\ response # None
        /\ response.status = "ok" /\ request = None
        /\ HostAfterReturn(call.cmd)
        /\ doubt' = (doubt /\ call.cmd.op # "select_application")
        /\ UNCHANGED card_app
    BY <1>2, UnderWay DEF Return, AcceptAnswer, Postprocess, Consume, cardVars
  <2>2. CASE SelectUnderWay
    <3>1. last_selected_application' = card_app'
      BY <2>1, <2>2 DEF SelectUnderWay, Belief, SelectAnswered, HostAfterReturn
    <3>2. card_app' \in Apps
      BY <2>1 DEF Inv, Base, TypeOK
    <3>3. HostApp' = card_app'
      BY <3>1, <3>2, NoneAssumption DEF HostApp
    <3> QED BY <2>1, <3>3 DEF Belief, RequestOfCall, SelectUnderWay, SelectAnswered, AppKnown,
                              ChangeKeyRequest
  <2>3. CASE ~SelectUnderWay
    <3>1. UNCHANGED last_selected_application /\ doubt' = doubt
      BY <2>1, <2>3 DEF SelectUnderWay, HostAfterReturn, hostVars, Inv, Base, TypeOK
    <3> QED
      BY <2>1, <2>3, <3>1 DEF Belief, RequestOfCall, SelectUnderWay, SelectAnswered, AppKnown,
                         ChangeKeyRequest, HostApp
  <2> QED BY <2>2, <2>3
<1>3. CASE ReceiveMore \/ ReceiveChallenge
  <2>1. /\ call # None /\ call \in Running /\ response # None /\ request = None
        /\ UNCHANGED <<hostVars, card_app, doubt>>
        /\ response.status = "more"
    BY <1>3, UnderWay DEF ReceiveMore, ReceiveChallenge, Consume, cardVars, history
  <2>2. ~SelectUnderWay
    BY <2>1 DEF Belief, SelectAnswered
  <2>3. call' # None /\ call'.cmd = call.cmd /\ request'.cmd.op = "additional_frame"
    <3>1. CASE ReceiveMore
      <4>1. call' = [call EXCEPT !.got = @ \o response.data]
        BY <3>1 DEF ReceiveMore
      <4>2. call.got \o response.data \in Seq(Payloads)
        <5>1. response.data \in Seq(Payloads) /\ call.got \in Seq(Payloads)
          BY <2>1, UnderWay DEF Responses, Running
        <5> QED BY <5>1
      <4>3. call' \in Running
        BY <2>1, <4>1, <4>2 DEF Running
      <4> QED BY <2>1, <3>1, <4>1, <4>3, NoneAssumption DEF Running, ReceiveMore, Command
    <3>2. CASE ReceiveChallenge
      <4>1. TypeOK'
        BY <3>2, ReceiveChallengeTyped DEF Inv
      <4>2. call'.cmd = call.cmd /\ request'.cmd.op = "additional_frame"
        BY <2>1, <3>2 DEF ReceiveChallenge, Running, Command
      <4>3. call' \in Running
        BY <3>2, ReceiveChallengeTyped DEF Inv
      <4> QED BY <4>2, <4>3, NoneAssumption
    <3> QED BY <1>3, <3>1, <3>2
  <2> QED
    BY <2>1, <2>2, <2>3 DEF Belief, RequestOfCall, SelectUnderWay, SelectAnswered, AppKnown,
                       ChangeKeyRequest, HostApp, hostVars
<1>4. CASE ReturnChunk
  <2>1. /\ call # None /\ call \in Running /\ response # None /\ request = None
        /\ UNCHANGED <<hostVars, card_app, doubt, request>>
        /\ call' = [call EXCEPT !.at = "next", !.ret = ReadSoFar]
        /\ call.left > 0
    BY <1>4, UnderWay
       DEF ReturnChunk, AcceptAnswer, Postprocess, Consume, MoreChunks, cardVars
  <2>2. ~SelectUnderWay
    BY <2>1 DEF Belief, SelectAnswered
  <2>3. call'.cmd = call.cmd
    BY <2>1 DEF Running
  <2> QED
    BY <2>1, <2>2, <2>3 DEF Belief, RequestOfCall, SelectUnderWay, SelectAnswered, AppKnown,
                       ChangeKeyRequest, HostApp, hostVars
<1>5. CASE NextChunk
  <2> DEFINE cmd == ReadChunk(call.cmd.mode, call.cmd.part + 1)
  <2>1. cmd.op = "read_file_data"
    BY DEF ReadChunk, Command
  <2>2. Transceive(None, cmd, "PLAIN", call.rx, call.ret, call.left - 1)
    BY <1>5 DEF NextChunk
  <2>3. call # None /\ call.at = "next" /\ UNCHANGED <<hostVars, card_app, doubt>>
    BY <1>5 DEF NextChunk, cardVars, history
  <2> HIDE DEF cmd
  <2>4. request'.cmd = cmd /\ call'.cmd = cmd
    BY <2>2 DEF Transceive, Preprocess
  <2>5. ~SelectUnderWay
    BY <2>3 DEF Belief, SelectAnswered
  <2> QED
    BY <2>1, <2>3, <2>4, <2>5 DEF Belief, RequestOfCall, SelectUnderWay, SelectAnswered,
                       AppKnown, ChangeKeyRequest, HostApp, hostVars
<1>6. CASE ReceiveProof
  <2>1. /\ call # None /\ call' = None /\ request' = None
        /\ call.at = "proof"
        /\ UNCHANGED <<last_selected_application, card_app, doubt>>
    BY <1>6, UnderWay DEF ReceiveProof, Consume, cardVars
  <2>2. ~SelectUnderWay
    BY <2>1 DEF Belief, SelectAnswered
  <2> QED
    BY <2>1, <2>2 DEF Belief, RequestOfCall, SelectUnderWay, SelectAnswered, AppKnown,
                       ChangeKeyRequest, HostApp
<1> QED BY <1>1, <1>2, <1>3, <1>4, <1>5, <1>6 DEF Host

\* A command the card carries out is the method's own.
LEMMA ExecutedIsOwn ==
  ASSUME Inv, Belief, NEW data \in Data(request.cmd.op), request # None,
         CardExecute(request.cmd, data)
  PROVE  /\ request.cmd = call.cmd /\ call # None
         /\ request.cmd.op # "authenticate" /\ request.cmd.op # "additional_frame"
<1>1. request.cmd.op \in Methods \ {"authenticate"}
  BY DEF CardExecute, CanExecute
<1>2. request.cmd.op # "additional_frame"
  BY <1>1 DEF Methods, Queries, Updates
<1> QED BY <1>1, <1>2, UnderWay DEF Belief, RequestOfCall

LEMMA CardBelief ==
  ASSUME Inv, Belief, Card \/ Link
  PROVE  Belief'
<1>1. CASE CardExecuteAny
  <2>1. PICK data \in Data(request.cmd.op) : CardExecute(request.cmd, data)
    BY <1>1 DEF CardExecuteAny
  <2>2. /\ request # None /\ request' = None /\ request.cmd = call.cmd /\ call # None
        /\ call' = call
        /\ UNCHANGED hostVars
        /\ card_app' = AppAfter(call.cmd)
        /\ doubt' = (doubt \/ DeletesSelected(call.cmd))
    BY <1>1, <2>1, ExecutedIsOwn DEF CardExecuteAny, CardExecute, Take
  <2>3. CASE SelectUnderWay
    <3>1. card_app' = call.cmd.app
      BY <2>2, <2>3 DEF SelectUnderWay, AppAfter
    <3>2. data = <<>>
      BY <2>1, <2>2, <2>3 DEF SelectUnderWay, Data, Queries
    <3>3. response'.status = "ok"
      <4>1. Len(data) # 2
        BY <3>2
      <4>2. response' = Answer(call.cmd, data, data)
        BY <2>1, <2>2, <4>1 DEF CardExecute
      <4> QED BY <4>2 DEF Answer
    <3>4. SelectAnswered'
      BY <2>2, <2>3, <3>1, <3>3 DEF Belief, SelectAnswered, SelectUnderWay
    <3>5. AppKnown'
      BY <2>2, <2>3, <3>3 DEF AppKnown, SelectUnderWay
    <3> QED BY <2>2, <3>4, <3>5 DEF Belief, RequestOfCall, ChangeKeyRequest
  <2>4. CASE ~SelectUnderWay
    <3>1. doubt' \/ (card_app' = card_app /\ doubt' = doubt)
      BY <2>2, <2>4 DEF SelectUnderWay, AppAfter, DeletesSelected, Inv, Base, TypeOK
    <3>2. AppKnown'
      BY <2>2, <2>4, <3>1 DEF Belief, AppKnown, SelectUnderWay, HostApp, hostVars
    <3> QED BY <2>2, <2>4, <3>2 DEF Belief, RequestOfCall, ChangeKeyRequest, SelectAnswered,
                                    SelectUnderWay
  <2> QED BY <2>3, <2>4
<1>2. CASE CardChallenge \/ CardContinue \/ (\E rndA \in 1 .. calls : CardProve(rndA))
  <2>1. /\ request # None /\ request' = None
        /\ request.cmd.op \in {"authenticate", "additional_frame"}
        /\ UNCHANGED <<hostVars, call, card_app, doubt>>
    BY <1>2 DEF CardChallenge, CardContinue, CardProve, Take, IsProof, history
  <2>2. ~SelectUnderWay
    BY <2>1 DEF Belief, RequestOfCall, SelectUnderWay
  <2> QED
    BY <2>1, <2>2 DEF Belief, RequestOfCall, ChangeKeyRequest, SelectAnswered, SelectUnderWay,
                      AppKnown, HostApp, hostVars
<1>3. CASE CardRefuse
  <2>1. /\ request # None /\ request' = None /\ response'.status = "error"
        /\ UNCHANGED <<hostVars, call, card_app, doubt>>
    BY <1>3 DEF CardRefuse, Take, history
  <2> QED
    BY <2>1 DEF Belief, RequestOfCall, ChangeKeyRequest, SelectAnswered, SelectUnderWay,
                AppKnown, HostApp, hostVars
<1>4. CASE Lose
  BY <1>4 DEF Lose, Belief, RequestOfCall, ChangeKeyRequest, SelectAnswered, SelectUnderWay,
              AppKnown, HostApp, hostVars, cardVars, history
<1>5. CASE Spoil
  <2>1. /\ response # None /\ response'.status = response.status
        /\ UNCHANGED <<hostVars, call, request, card_app, doubt>>
    BY <1>5, UnderWay DEF Spoil, Responses, cardVars, history
  <2> QED
    BY <2>1 DEF Belief, RequestOfCall, ChangeKeyRequest, SelectAnswered, SelectUnderWay,
                AppKnown, Numbered, HostApp, hostVars
<1>6. CASE CardReset
  <2>1. /\ request' = None /\ response' = None
        /\ doubt' \/ (card_app' = card_app /\ doubt' = doubt)
        /\ UNCHANGED <<hostVars, call>>
    BY <1>6 DEF CardReset, Inv, Base, TypeOK
  <2> QED
    BY <2>1 DEF Belief, RequestOfCall, ChangeKeyRequest, SelectAnswered, SelectUnderWay,
                AppKnown, HostApp, hostVars
<1> QED BY <1>1, <1>2, <1>3, <1>4, <1>5, <1>6 DEF Card, Link

LEMMA StepBelief ==
  ASSUME Inv, Belief, [Next]_vars
  PROVE  Belief'
<1>1. CASE Rest \/ UNCHANGED vars
  BY <1>1 DEF Rest, vars, hostVars, cardVars, history, Belief, RequestOfCall, ChangeKeyRequest,
              SelectAnswered, SelectUnderWay, AppKnown, Numbered, HostApp
<1> QED BY <1>1, CallerBelief, HostBelief, CardBelief DEF Next

-----------------------------------------------------------------------------
(* The handshake: what the right key comes to                              *)

\* The challenge under way was made with the key the card verifies with.
ChallengeOfCard ==
  /\ call # None /\ call.at = "challenge"
  /\ response # None /\ response.status # "error"
  /\ card_chal # None
  => response.cipher.key = CardKey /\ card_chal.rnd = card_rnd

\* The proof under way is made with the key the caller gave, and with the right key it
\* continues the chain of the challenge.
ProofOfCall ==
  call # None /\ call.at = "proof" /\ request # None =>
    /\ request.cipher.key = key_bytes[call.key]
    /\ card_chal # None /\ key_bytes[call.key] = CardKey =>
         request.cipher.chain = ProofChain(calls)

Handshaking == ChallengeOfCard /\ ProofOfCall

\* The state of the method tells what kind of frame is under way.
LEMMA RequestKind ==
  ASSUME Inv, request # None
  PROVE  /\ call.at \in {"sent", "challenge", "proof"}
         /\ call.at = "challenge" <=> request.cmd.op = "authenticate"
         /\ call.at = "proof" <=> IsProof(request)
<1>1. call # None /\ call.at \in {"sent", "next", "challenge", "proof"}
  BY UnderWay DEF Running, CallStates
<1>2. call.at \in {"sent", "next"} =>
        /\ request.cmd.op # "authenticate" /\ ~IsProof(request)
        /\ call.at # "next"
  BY <1>1 DEF Inv, Base, Protocol, InCommand
<1>3. call.at = "challenge" => request.cmd.op = "authenticate" /\ ~IsProof(request)
  BY <1>1 DEF Inv, Base, Protocol, InHandshake, IsProof
<1>4. call.at = "proof" => IsProof(request) /\ request.cmd.op # "authenticate"
  BY <1>1 DEF Inv, Base, Protocol, InProof, IsProof
<1> QED BY <1>1, <1>2, <1>3, <1>4

\* Nothing of a handshake is under way after a step that ends the method, or leaves it
\* between commands.
LEMMA NoHandshake ==
  ASSUME \/ call' = None
         \/ call'.at \in {"sent", "next"}
         \/ request' = None /\ response' = None
         \/ request' = None /\ response'.status = "error"
         \/ request' = None /\ call'.at = "proof"
  PROVE  Handshaking'
  BY DEF Handshaking, ChallengeOfCard, ProofOfCall

LEMMA CallerHandshaking ==
  ASSUME Inv, Caller
  PROVE  Handshaking'
<1>1. TypeOK
  BY DEF Inv, Base
<1>2. ASSUME NEW o \in KeyObjs, NEW s \in Secrets, NewKey(o, s)
      PROVE  Handshaking'
  BY <1>2, NoHandshake DEF NewKey
<1>3. ASSUME NEW k \in KeyIds, NEW o \in KeyObjs, Authenticate(k, o)
      PROVE  Handshaking'
  <2>1. response' = None
    BY <1>3, UnderWay DEF Authenticate, SendAuthenticate, Invoke
  <2>2. call'.at = "challenge"
    BY <1>3 DEF Authenticate, SendAuthenticate
  <2> QED BY <2>1, <2>2 DEF Handshaking, ChallengeOfCard, ProofOfCall
<1>4. ASSUME NEW kid \in Numbers, NEW cmd \in Commands, NEW tx \in Modes,
             NEW rx \in Modes, NEW left \in Nat,
             Ordinary(kid, cmd, tx, rx, left)
      PROVE  Handshaking'
  <2>1. call'.at = "sent"
    BY <1>4 DEF Ordinary, Transceive
  <2> QED BY <2>1, NoHandshake
<1> QED BY <1>1, <1>2, <1>3, <1>4, CallerStep

LEMMA AppendPair ==
  ASSUME NEW S, NEW a \in S, NEW b \in S
  PROVE  Append(<<a>>, b) = <<a, b>>
<1> DEFINE t == Append(<<a>>, b)
<1>1. <<a>> \in Seq(S) /\ Len(<<a>>) = 1 /\ <<a>>[1] = a
  OBVIOUS
<1>2. t \in Seq(S) /\ Len(t) = 2 /\ t[1] = a /\ t[2] = b
  BY <1>1
<1>3. <<a, b>> \in Seq(S) /\ Len(<<a, b>>) = 2
  OBVIOUS
<1> HIDE DEF t
<1>4. t = <<a, b>>
  BY <1>2, <1>3
<1> QED BY <1>4 DEF t

LEMMA HostHandshaking ==
  ASSUME Inv, Handshaking, Host
  PROVE  Handshaking'
<1>1. CASE ReceiveError \/ RefuseAnswer \/ RefuseChallenge \/ RefuseProof \/ NoAnswer \/ Return
           \/ ReceiveProof
  BY <1>1, NoHandshake
     DEF ReceiveError, RefuseAnswer, RefuseChallenge, RefuseProof, NoAnswer, Return,
         ReceiveProof, Raise
<1>2. CASE ReceiveMore \/ ReturnChunk
  <2>1. call \in Running
    BY <1>2, UnderWay DEF ReceiveMore, ReturnChunk, AcceptAnswer, Postprocess, Consume
  <2>2. call'.at \in {"sent", "next"}
    BY <1>2, <2>1
       DEF ReceiveMore, ReturnChunk, AcceptAnswer, Postprocess, Consume, Running
  <2> QED BY <2>2, NoHandshake
<1>3. CASE NextChunk
  <2>1. call'.at = "sent"
    BY <1>3 DEF NextChunk, Transceive
  <2> QED BY <2>1, NoHandshake
<1>4. CASE ReceiveChallenge
  <2> DEFINE o == call.key
             rndB == DecryptedRndB(o)
             sent == Append(response.cipher.chain, <<"RndAB", <<calls, rndB>>>>)
  <2>1. /\ call # None /\ call \in Running /\ call.at = "challenge" /\ response # None
        /\ response.status = "more"
    BY <1>4, UnderWay DEF ReceiveChallenge, Consume
  <2>2. response.cipher.chain = <<<<"RndB", card_rnd>>>>
    BY <2>1 DEF Inv, Base, Protocol, InHandshake
  <2>3. /\ request'.cipher.key = key_bytes[o]
        /\ request'.cipher.chain = sent
        /\ call'.key = o /\ call'.at = "proof"
        /\ response' = None
        /\ UNCHANGED <<key_bytes, cardVars, calls>>
    BY <1>4, <2>1 DEF ReceiveChallenge, Consume, Running
  <2>4. ASSUME card_chal # None, key_bytes[o] = CardKey
        PROVE  sent = ProofChain(calls)
    <3>1. response.cipher.key = key_bytes[o] /\ card_chal.rnd = card_rnd
      BY <2>1, <2>4 DEF Handshaking, ChallengeOfCard
    <3>2. Last(response.cipher.chain) = <<"RndB", card_rnd>>
      BY <2>2 DEF Last
    <3>3. Append(IvAfterCipherInit(o), Last(response.cipher.chain)) = <<<<"RndB", card_rnd>>>>
      BY <3>2 DEF IvAfterCipherInit
    <3>4. rndB = card_rnd
      BY <2>2, <3>1, <3>2, <3>3 DEF DecryptedRndB
    <3> DEFINE first == <<"RndB", card_rnd>>
               second == <<"RndAB", <<calls, card_rnd>>>>
    <3>5. sent = Append(<<first>>, second)
      BY <2>2, <3>4
    <3>6. ProofChain(calls) = <<first, second>>
      BY <3>1 DEF ProofChain
    <3> HIDE DEF first, second, sent, rndB
    <3>7. Append(<<first>>, second) = <<first, second>>
      BY AppendPair, first \in {first, second}, second \in {first, second}
    <3> QED BY <3>5, <3>6, <3>7
  <2> HIDE DEF sent, rndB
  <2> QED
    BY <2>3, <2>4 DEF Handshaking, ChallengeOfCard, ProofOfCall, CardKey, ProofChain, cardVars
<1> QED BY <1>1, <1>2, <1>3, <1>4 DEF Host

LEMMA CardHandshaking ==
  ASSUME Inv, Handshaking, Card \/ Link
  PROVE  Handshaking'
<1>1. CASE CardChallenge
  <2>1. /\ request # None /\ request' = None /\ request.cmd.op = "authenticate"
        /\ response'.cipher.key = card_keys[card_app][request.cmd.kid]
        /\ card_chal' = [kid |-> request.cmd.kid, rnd |-> card_rnd']
        /\ UNCHANGED <<card_app, card_keys>>
    BY <1>1 DEF CardChallenge, Take
  <2> QED BY <2>1 DEF Handshaking, ChallengeOfCard, ProofOfCall, CardKey
<1>2. CASE \E rndA \in 1 .. calls : CardProve(rndA)
  <2>1. /\ request # None /\ request' = None /\ IsProof(request) /\ call' = call
    BY <1>2 DEF CardProve, Take
  <2> QED BY <2>1, RequestKind, NoHandshake
<1>3. CASE CardExecuteAny \/ CardContinue
  <2>1. /\ request # None /\ request' = None /\ call' = call
        /\ ~IsProof(request) /\ request.cmd.op # "authenticate"
    BY <1>3 DEF CardExecuteAny, CardExecute, CanExecute, CardContinue, Take, IsProof,
                Methods, Queries, Updates
  <2> QED BY <2>1, RequestKind, NoHandshake
<1>4. CASE CardRefuse
  <2>1. request' = None /\ response'.status = "error"
    BY <1>4 DEF CardRefuse, Take
  <2> QED BY <2>1, NoHandshake
<1>5. CASE Lose \/ CardReset
  BY <1>5, NoHandshake DEF Lose, CardReset
<1>6. CASE Spoil
  <2>1. request' = None /\ call' = call /\ call.at \in {"sent", "proof"}
    BY <1>6, UnderWay DEF Spoil
  <2> QED BY <2>1, NoHandshake
<1> QED BY <1>1, <1>2, <1>3, <1>4, <1>5, <1>6 DEF Card, Link

LEMMA StepHandshaking ==
  ASSUME Inv, Handshaking, [Next]_vars
  PROVE  Handshaking'
<1>1. CASE Rest \/ UNCHANGED vars
  BY <1>1 DEF Rest, vars, keyVars, cardVars, Handshaking, ChallengeOfCard, ProofOfCall, CardKey,
              ProofChain
<1> QED BY <1>1, CallerHandshaking, HostHandshaking, CardHandshaking DEF Next

-----------------------------------------------------------------------------
(* The theorems                                                            *)

\* What the object believes of the selected application, and sends for change_key, is
\* right in every state of a method (select_application, change_key).
THEOREM BeliefCorrect == Spec => []Belief
<1>1. Init => Belief
  BY InitBelief
<1>2. Inv /\ Belief /\ [Next]_vars => Belief'
  BY StepBelief
<1> QED
  BY <1>1, <1>2, InvCorrect, PTL DEF Spec

\* Between two calls the object knows the selected application, unless the answer to
\* select_application was lost, or the application deleted, or the card reset.
THEOREM BelievedAppCorrect == Spec => []BelievedApp
<1>1. Belief => BelievedApp
  BY DEF Belief, AppKnown, SelectUnderWay, BelievedApp
<1> QED
  BY <1>1, BeliefCorrect, PTL

\* At the card level the card begins a session with its master key only.
MasterOnly ==
  card_app = Picc =>
    /\ card_auth # None => card_auth.kid = 0
    /\ card_chal # None => card_chal.kid = 0

LEMMA StepMasterOnly ==
  ASSUME Inv, MasterOnly, [Next]_vars
  PROVE  MasterOnly'
<1>1. CASE Caller
  <2>1. UNCHANGED cardVars
    BY <1>1, CallerStep DEF NewKey, Authenticate, SendAuthenticate, Ordinary, Invoke, Inv, Base
  <2> QED BY <2>1 DEF MasterOnly, cardVars
<1>2. CASE Host
  BY <1>2
     DEF Host, ReceiveError, ReceivedError, ReceiveMore, RefuseAnswer, Return, ReturnChunk,
         AcceptAnswer, Postprocess, NextChunk, ReceiveChallenge, RefuseChallenge, RefuseProof,
         ReceiveProof, NoAnswer, cardVars, MasterOnly
<1>3. CASE CardChallenge
  <2>1. /\ card_auth' = None /\ card_app' = card_app
        /\ card_chal' = [kid |-> request.cmd.kid, rnd |-> card_rnd + 1]
        /\ card_app = Picc => request.cmd.kid = 0
    BY <1>3 DEF CardChallenge, KeyOnCard
  <2>2. card_chal'.kid = request.cmd.kid
    BY <2>1
  <2> QED BY <2>1, <2>2 DEF MasterOnly
<1>4. CASE \E rndA \in 1 .. calls : CardProve(rndA)
  <2>1. PICK rndA \in 1 .. calls : CardProve(rndA)
    BY <1>4
  <2>2. /\ card_chal # None /\ card_chal' = None /\ card_app' = card_app
        /\ card_auth' = [sk |-> <<rndA, card_chal.rnd>>, kid |-> card_chal.kid]
    BY <2>1 DEF CardProve, ProofFor
  <2>3. card_auth'.kid = card_chal.kid
    BY <2>2
  <2> QED BY <2>2, <2>3 DEF MasterOnly
<1>5. CASE CardExecuteAny
  <2>1. PICK data \in Data(request.cmd.op) : CardExecute(request.cmd, data)
    BY <1>5 DEF CardExecuteAny
  <2>2. /\ card_app' = AppAfter(request.cmd) /\ card_auth' = AuthAfter(request.cmd)
        /\ card_chal' = None
    BY <2>1 DEF CardExecute
  <2>3. card_auth' # None => card_app' = card_app /\ card_auth' = card_auth
    BY <2>2 DEF AppAfter, AuthAfter
  <2> QED BY <2>2, <2>3 DEF MasterOnly
<1>6. CASE CardContinue \/ CardRefuse \/ Link \/ Rest \/ UNCHANGED vars
  BY <1>6 DEF CardContinue, CardRefuse, Link, Lose, Spoil, CardReset, Rest, vars, cardVars,
              MasterOnly
<1> QED BY <1>1, <1>2, <1>3, <1>4, <1>5, <1>6 DEF Next, Card

\* At the card level the card is in no session but one with its master key (the assumption
\* on the card that change_key makes where it replaces the key number).
THEOREM MasterOnlyCorrect == Spec => []MasterOnly
<1>1. Init => MasterOnly
  BY DEF Init, MasterOnly
<1>2. Inv /\ MasterOnly /\ [Next]_vars => MasterOnly'
  BY StepMasterOnly
<1> QED
  BY <1>1, <1>2, InvCorrect, PTL DEF Spec

\* The message of change_key is for the key the caller named, in the format the card's
\* session calls for, under the number the card reads (change_key).
THEOREM ChangeKeyCorrect == Spec => []ChangeKeyAgrees
<1>1. Inv /\ Belief /\ MasterOnly => ChangeKeyAgrees
  <2> SUFFICES ASSUME Inv, Belief, MasterOnly, request # None,
                      request.cmd.op = "change_key", card_auth # None
               PROVE  LET cmd == request.cmd IN
                      /\ cmd.same = (call.kid = card_auth.kid)
                      /\ HostApp = card_app /\ card_app # Picc =>
                           cmd.kid = call.kid /\ cmd.flag = "2K3DES"
                      /\ HostApp = card_app /\ card_app = Picc /\ cmd.same =>
                           /\ cmd.kid = call.kid
                           /\ cmd.type # "2K3DES" => cmd.flag = cmd.type
    BY DEF ChangeKeyAgrees
  <2>1. /\ is_authenticated
        /\ request.cmd.same = (call.kid = last_auth_key_id)
        /\ Numbered(call.kid, request.cmd)
    BY DEF Belief, ChangeKeyRequest
  <2>2. card_auth.kid = last_auth_key_id
    BY <2>1 DEF Inv, SessionAgreement
  <2>3. card_app = Picc => card_auth.kid = 0
    BY DEF MasterOnly
  <2> QED BY <2>1, <2>2, <2>3 DEF Numbered
<1> QED
  BY <1>1, InvCorrect, BeliefCorrect, MasterOnlyCorrect, PTL

\* What one step of the card may change when it is asked to change a key.
ChangesNamed ==
  request # None /\ request.cmd.op = "change_key" =>
    \A a \in Apps, k \in KeyIds :
      card_keys'[a][k] # card_keys[a][k] => a = card_app /\ k = call.kid

LEMMA StepChangesNamed ==
  ASSUME Inv, Belief, MasterOnly, [Next]_vars
  PROVE  ChangesNamed
<1>1. CASE card_keys' = card_keys
  BY <1>1 DEF ChangesNamed
<1>2. CASE CardExecuteAny
  <2> SUFFICES ASSUME request # None, request.cmd.op = "change_key",
                      NEW a \in Apps, NEW k \in KeyIds, card_keys'[a][k] # card_keys[a][k]
               PROVE  a = card_app /\ k = call.kid
    BY DEF ChangesNamed
  <2>1. PICK data \in Data(request.cmd.op) : CardExecute(request.cmd, data)
    BY <1>2 DEF CardExecuteAny
  <2>2. ChangeKeyDecodes(request.cmd)
    BY <2>1 DEF CardExecute, CanExecute
  <2>3. card_keys' = [card_keys EXCEPT ![card_app][request.cmd.kid] = request.cmd.key]
    BY <2>1 DEF CardExecute, KeysAfter
  <2>4. a = card_app /\ k = request.cmd.kid
    BY <2>3 DEF Inv, Base, TypeOK
  <2>5. /\ is_authenticated
        /\ request.cmd.same = (call.kid = last_auth_key_id)
        /\ Numbered(call.kid, request.cmd)
    BY DEF Belief, ChangeKeyRequest
  <2>6. request.cmd.kid = call.kid \/ (request.cmd.kid = 0 /\ request.cmd.flag # "2K3DES")
    BY <2>5 DEF Numbered
  <2>7. ASSUME request.cmd.kid = 0, request.cmd.flag # "2K3DES"
        PROVE  call.kid = 0
    <3>1. card_app = Picc
      BY <2>2, <2>7 DEF ChangeKeyDecodes
    <3>2. card_auth.kid = 0 /\ last_auth_key_id = 0
      BY <2>2, <2>5, <3>1 DEF ChangeKeyDecodes, MasterOnly, Inv, SessionAgreement
    <3>3. request.cmd.same
      BY <2>2, <2>7, <3>2 DEF ChangeKeyDecodes
    <3> QED BY <2>5, <3>2, <3>3
  <2> QED BY <2>4, <2>6, <2>7
<1>3. CardExecuteAny \/ card_keys' = card_keys
  <2>1. Caller => card_keys' = card_keys
    BY CallerStep DEF NewKey, Authenticate, SendAuthenticate, Ordinary, Invoke, cardVars, Inv, Base
  <2>2. Host => card_keys' = card_keys
    BY DEF Host, ReceiveError, ReceivedError, ReceiveMore, RefuseAnswer, Return, ReturnChunk,
           AcceptAnswer, Postprocess, NextChunk, ReceiveChallenge, RefuseChallenge, RefuseProof,
           ReceiveProof, NoAnswer, cardVars
  <2>3. Card => CardExecuteAny \/ card_keys' = card_keys
    BY DEF Card, CardChallenge, CardProve, CardContinue, CardRefuse
  <2>4. Link \/ Rest \/ UNCHANGED vars => card_keys' = card_keys
    BY DEF Link, Lose, Spoil, CardReset, Rest, vars, cardVars
  <2> QED BY <2>1, <2>2, <2>3, <2>4 DEF Next
<1> QED BY <1>1, <1>2, <1>3

\* Whatever was lost before, and whichever application each side takes for the selected
\* one, no change_key changes another key than the one the caller named: the number the
\* code replaces by 0 is refused by the card where it does not mean the master key.
THEOREM RightKeyChangedCorrect == Spec => RightKeyChanged
<1>1. Inv /\ Belief /\ MasterOnly /\ [Next]_vars =>
        [ request # None /\ request.cmd.op = "change_key" =>
            \A a \in Apps, k \in KeyIds :
              card_keys'[a][k] # card_keys[a][k] => a = card_app /\ k = call.kid ]_vars
  BY StepChangesNamed DEF ChangesNamed
<1> QED
  BY <1>1, InvCorrect, BeliefCorrect, MasterOnlyCorrect, PTL DEF Spec, RightKeyChanged

\* The two messages of authenticate are made with the keys of the two sides, and with
\* the same key they belong to one challenge.
THEOREM HandshakingCorrect == Spec => []Handshaking
<1>1. Init => Handshaking
  BY DEF Init, Handshaking, ChallengeOfCard, ProofOfCall
<1>2. Inv /\ Handshaking /\ [Next]_vars => Handshaking'
  BY StepHandshaking
<1> QED
  BY <1>1, <1>2, InvCorrect, PTL DEF Spec

\* A proof made with the card's key is the proof the card expects, whatever the key object
\* was used for before (authenticate, cipher_init).
THEOREM RightKeyCorrect == Spec => []RightKeyProves
<1>1. Inv /\ Handshaking => RightKeyProves
  <2> SUFFICES ASSUME Inv, Handshaking, request # None, IsProof(request), card_chal # None,
                      key_bytes[call.key] = CardKey
               PROVE  ProofFor(calls)
    BY DEF RightKeyProves
  <2>1. call # None /\ call.at = "proof"
    BY UnderWay, RequestKind
  <2> QED BY <2>1 DEF Handshaking, ProofOfCall, ProofFor
<1> QED
  BY <1>1, InvCorrect, HandshakingCorrect, PTL

=============================================================================
