---------------------------- MODULE AnswerProofs ----------------------------
(***************************************************************************)
(* What a protected answer of Desfire is worth, for every value of the     *)
(* constants: the data a method returns under a MAC or a CRC is the        *)
(* card's answer to that method, and an encrypted answer repairs the IV.   *)
(* The two IVs are in step as long as nothing went wrong, for which there  *)
(* are few causes without a fault; if something did, no protected answer   *)
(* is accepted before they are repaired.                                   *)
(***************************************************************************)
EXTENDS DesfireProofs, SequenceTheorems

Protected == call # None /\ call.rx # "PLAIN"

\* A MAC or ciphertext of the card is made in the session it still is in, and ends its
\* chain with what the card has answered since the last chunk.
Carries(cipher) ==
  cipher # None =>
    /\ answered.data = call.ret \o Last(cipher.chain)[2]
    /\ answered.sk = cipher.key
    /\ card_auth # None /\ cipher.chain = card_iv

\* The last frame carries the answer, whatever happened to its data on the way.
AnswerArrives ==
  Protected /\ call.at = "sent" /\ response # None /\ response.status = "ok" =>
    Carries(response.cipher)

AsksForMore == request # None /\ request.cmd.op = "additional_frame"

\* So does the last frame of a long answer, while the first or the request for more of it
\* is under way.
RestWaits ==
  /\ Protected /\ call.at = "sent" /\ card_rest # None
  /\ (response # None /\ response.status = "more") \/ AsksForMore
  => Carries(card_rest.cipher)

\* Before the card carries the command out, all of its answers have been read.
ReadBefore ==
  /\ Protected
  /\ call.at = "next" \/ (call.at = "sent" /\ request # None /\ ~AsksForMore)
  => answered.data = call.ret

\* The method that ends the session asks for no protection; nothing is returned before
\* the method returns, and what it returns under protection it returns in a session.
ReturnsInSession ==
  /\ Protected => ~(call.cmd.op = "change_key" /\ call.cmd.same)
  /\ call # None => returned = None
  /\ returned # None /\ returned.rx # "PLAIN" => session_key # None

Answering == AnswerArrives /\ RestWaits /\ ReadBefore /\ ReturnsInSession /\ AnswerAuthentic

LEMMA InitAnswering == Init => Answering
  BY DEF Init, Answering, AnswerArrives, RestWaits, ReadBefore, ReturnsInSession,
         AnswerAuthentic, Protected

\* A method that raises leaves nothing to look at.
LEMMA RaisedAnswering ==
  ASSUME Answering, call # None, call' = None, returned' = returned
  PROVE  Answering'
  BY DEF Answering, AnswerArrives, RestWaits, ReadBefore, ReturnsInSession, AnswerAuthentic,
         Protected

\* A method that is not waiting for the answer of an ordinary command has none.
LEMMA ElsewhereAnswering ==
  ASSUME Answering, call # None, call' # None, returned' = returned,
         call'.at \in {"challenge", "proof"},
         call'.rx = call.rx, call'.cmd = call.cmd
  PROVE  Answering'
  BY DEF Answering, AnswerArrives, RestWaits, ReadBefore, ReturnsInSession, AnswerAuthentic,
         Protected

\* Nothing under way, nothing to carry.
LEMMA LostAnswering ==
  ASSUME Answering, request' = None, response' = None \/ response'.status = "error",
         UNCHANGED <<hostVars, key_bytes, call, returned, answered>>
  PROVE  Answering'
  BY DEF Answering, AnswerArrives, RestWaits, ReadBefore, ReturnsInSession, AnswerAuthentic,
         Protected, AsksForMore, hostVars

LEMMA CallerAnswering ==
  ASSUME Inv, Answering, Caller
  PROVE  Answering'
<1>1. TypeOK /\ AuthAgreement /\ <<>> \in Seq(Payloads)
  BY DEF Inv, Base
<1>2. ASSUME NEW o \in KeyObjs, NEW s \in Secrets, NewKey(o, s)
      PROVE  Answering'
  <2>1. session_key # None => key_bytes'[session_key] = key_bytes[session_key]
    BY <1>1, <1>2 DEF NewKey, TypeOK
  <2>2. call = None /\ call' = None /\ UNCHANGED <<session_key, returned, answered>>
    BY <1>2 DEF NewKey, hostVars, history
  <2> QED
    BY <2>1, <2>2 DEF Answering, AnswerArrives, RestWaits, ReadBefore, ReturnsInSession,
                      AnswerAuthentic, Protected
<1>3. ASSUME NEW k \in KeyIds, NEW o \in KeyObjs, Authenticate(k, o)
      PROVE  Answering'
  <2>1. returned' = None /\ call'.rx = "PLAIN"
    BY <1>3 DEF Authenticate, SendAuthenticate, Invoke
  <2> QED
    BY <2>1 DEF Answering, AnswerArrives, RestWaits, ReadBefore, ReturnsInSession,
                AnswerAuthentic, Protected
<1>4. ASSUME NEW kid \in Numbers, NEW cmd \in Commands, NEW tx \in Modes,
             NEW rx \in Modes, NEW left \in Nat,
             cmd.op \in Methods \ {"authenticate"}, Ordinary(kid, cmd, tx, rx, left),
             Detail(kid, cmd, rx, left)
      PROVE  Answering'
  <2>1. Transceive(kid, cmd, tx, rx, <<>>, left)
    BY <1>4 DEF Ordinary
  <2>2. /\ request'.cmd = cmd /\ call'.at = "sent"
        /\ call'.cmd = cmd /\ call'.rx = rx /\ call'.ret = <<>>
    BY <2>1 DEF Transceive, Preprocess
  <2>3. response' = None /\ returned' = None /\ answered'.data = <<>>
    BY <1>4, UnderWay DEF Ordinary, Invoke
  <2>4. cmd.op # "additional_frame"
    BY <1>4 DEF Methods, Queries, Updates
  <2>5. cmd.op = "change_key" /\ cmd.same => rx = "PLAIN"
    BY <1>4 DEF Detail
  <2>6. AnswerArrives' /\ RestWaits' /\ ReadBefore'
    BY <2>2, <2>3, <2>4 DEF AnswerArrives, RestWaits, ReadBefore, Protected, AsksForMore
  <2>7. ReturnsInSession' /\ AnswerAuthentic'
    BY <2>2, <2>3, <2>5 DEF ReturnsInSession, AnswerAuthentic, Protected
  <2> QED BY <2>6, <2>7 DEF Answering
<1> QED BY <1>1, <1>2, <1>3, <1>4, CallerStep

\* An answer that _postprocess accepts under protection is the card's.
LEMMA AcceptedIsAnswer ==
  ASSUME Inv, Answering, AcceptAnswer, call.rx # "PLAIN"
  PROVE  /\ ReadSoFar = answered.data
         /\ answered.sk = key_bytes[session_key]
         /\ session_key \in KeyObjs
<1>1. Postprocess /\ Authentic
  BY DEF AcceptAnswer
<1>2. /\ call # None /\ call \in Running /\ call.at = "sent"
      /\ response # None /\ response \in Responses /\ response.status = "ok"
  BY <1>1, UnderWay DEF Postprocess, Consume
<1>3. session_key \in KeyObjs
  BY <1>2 DEF Inv, Base, Protocol, InCommand, AuthAgreement, TypeOK
<1>4. Received \in Seq(Payloads)
  BY <1>2 DEF Received, Running, Responses
<1>5. iv[session_key] \in Seq(Items) /\ <<"rx", Received>> \in Items
  BY <1>3, <1>4 DEF Inv, Base, TypeOK, Items
<1>6. ChainAfterRx \in Seq(Items) /\ Last(ChainAfterRx) = <<"rx", Received>>
  BY <1>5 DEF ChainAfterRx, Last
<1>7. key_bytes[session_key] \in KeyValues /\ call.rx \in Modes
  BY <1>2, <1>3 DEF Inv, Base, TypeOK, Running
<1>8. response.cipher \in Ciphers
  BY <1>1, <1>6, <1>7 DEF Authentic, Ciphers
<1>9. Carries(response.cipher) /\ response.cipher # None
  BY <1>2, <1>8, NoneAssumption DEF Answering, AnswerArrives, Protected
<1>10. response.cipher.key = key_bytes[session_key] /\ response.cipher.chain = ChainAfterRx
  BY <1>1 DEF Authentic
<1>11. Last(response.cipher.chain)[2] = Received
  BY <1>6, <1>10
<1> QED BY <1>3, <1>9, <1>10, <1>11 DEF Carries, ReadSoFar

LEMMA HostAnswering ==
  ASSUME Inv, Answering, Host
  PROVE  Answering'
<1>1. CASE ReceiveError \/ RefuseAnswer \/ RefuseChallenge \/ RefuseProof \/ NoAnswer
  BY <1>1, UnderWay, RaisedAnswering
     DEF ReceiveError, ReceivedError, RefuseAnswer, RefuseChallenge, RefuseProof, NoAnswer,
         Postprocess, Consume, Raise
<1>2. CASE ReceiveMore
  <2>1. /\ call # None /\ call \in Running /\ call.at = "sent"
        /\ response # None /\ response \in Responses /\ response.status = "more"
        /\ call' = [call EXCEPT !.got = @ \o response.data]
        /\ request'.cmd.op = "additional_frame"
        /\ response' = None
        /\ UNCHANGED <<hostVars, key_bytes, returned, card_rest, card_auth, card_iv, answered>>
    BY <1>2, UnderWay DEF ReceiveMore, Consume, Command, keyVars, cardVars, history
  <2>2. /\ call'.rx = call.rx /\ call'.cmd = call.cmd /\ call'.ret = call.ret
        /\ call'.at = "sent"
    BY <2>1 DEF Running
  <2>3. AnswerArrives' /\ RestWaits'
    BY <2>1, <2>2 DEF Answering, AnswerArrives, RestWaits, Protected, AsksForMore, Carries
  <2>4. ReadBefore' /\ ReturnsInSession' /\ AnswerAuthentic'
    BY <2>1, <2>2 DEF Answering, ReadBefore, ReturnsInSession, AnswerAuthentic, Protected,
                      AsksForMore
  <2> QED BY <2>3, <2>4 DEF Answering
<1>3. CASE Return
  <2>1. /\ call # None /\ call' = None
        /\ returned'.rx = call.rx /\ returned'.data = ReadSoFar
        /\ HostAfterReturn(call.cmd)
        /\ UNCHANGED <<key_bytes, answered>>
        /\ AcceptAnswer
    BY <1>3, UnderWay DEF Return, AcceptAnswer, Postprocess, Consume
  <2>2. ASSUME returned'.rx # "PLAIN"
        PROVE  /\ session_key' # None
               /\ returned'.data = answered'.data
               /\ answered'.sk = key_bytes'[session_key']
    <3>1. Protected /\ ~(call.cmd.op = "change_key" /\ call.cmd.same)
      BY <2>1, <2>2 DEF Protected, Answering, ReturnsInSession
    <3>2. UNCHANGED session_key
      BY <2>1, <3>1 DEF HostAfterReturn, hostVars
    <3> QED BY <2>1, <2>2, <3>2, AcceptedIsAnswer, NoneAssumption
  <2> QED
    BY <2>1, <2>2 DEF Answering, AnswerArrives, RestWaits, ReadBefore, ReturnsInSession,
                      AnswerAuthentic, Protected
<1>4. CASE ReturnChunk
  <2>1. /\ call # None /\ call \in Running
        /\ call' = [call EXCEPT !.at = "next", !.ret = ReadSoFar]
        /\ AcceptAnswer
        /\ UNCHANGED <<hostVars, returned, answered>>
    BY <1>4, UnderWay DEF ReturnChunk, AcceptAnswer, Postprocess, Consume
  <2>2. /\ call'.rx = call.rx /\ call'.cmd = call.cmd /\ call'.ret = ReadSoFar
        /\ call'.at = "next"
    BY <2>1 DEF Running
  <2>3. ReadBefore'
    BY <2>1, <2>2, AcceptedIsAnswer DEF ReadBefore, Protected
  <2>4. AnswerArrives' /\ RestWaits' /\ ReturnsInSession' /\ AnswerAuthentic'
    BY <2>1, <2>2 DEF Answering, AnswerArrives, RestWaits, ReturnsInSession, AnswerAuthentic,
                      Protected
  <2> QED BY <2>3, <2>4 DEF Answering
<1>5. CASE NextChunk
  <2> DEFINE cmd == ReadChunk(call.cmd.mode, call.cmd.part + 1)
  <2>1. cmd.op = "read_file_data"
    BY DEF ReadChunk, Command
  <2>2. Transceive(None, cmd, "PLAIN", call.rx, call.ret, call.left - 1)
    BY <1>5 DEF NextChunk
  <2>3. /\ call # None /\ call.at = "next"
        /\ UNCHANGED <<hostVars, returned, response, answered>>
    BY <1>5 DEF NextChunk, history
  <2> HIDE DEF cmd
  <2>4. /\ request'.cmd = cmd /\ call'.cmd = cmd /\ call'.rx = call.rx
        /\ call'.ret = call.ret /\ call'.at = "sent"
    BY <2>2 DEF Transceive, Preprocess
  <2>5. response' = None
    BY <2>3 DEF Inv, Base, Protocol, InCommand
  <2>6. AnswerArrives' /\ RestWaits'
    BY <2>1, <2>4, <2>5 DEF AnswerArrives, RestWaits, AsksForMore
  <2>7. ReadBefore' /\ ReturnsInSession' /\ AnswerAuthentic'
    BY <2>1, <2>3, <2>4 DEF Answering, ReadBefore, ReturnsInSession, AnswerAuthentic, Protected
  <2> QED BY <2>6, <2>7 DEF Answering
<1>6. CASE ReceiveChallenge
  <2>1. call # None /\ call \in Running
    BY <1>6, UnderWay DEF ReceiveChallenge, Consume
  <2>2. /\ call'.rx = call.rx /\ call'.cmd = call.cmd /\ call'.at = "proof"
        /\ UNCHANGED <<hostVars, returned>>
    BY <1>6, <2>1 DEF ReceiveChallenge, Running
  <2>3. call' \in Running
    BY <1>6, ReceiveChallengeTyped DEF Inv
  <2> QED BY <2>1, <2>2, <2>3, ElsewhereAnswering, NoneAssumption
<1>7. CASE ReceiveProof
  <2>1. call' = None /\ returned'.rx = "PLAIN"
    BY <1>7 DEF ReceiveProof
  <2> QED
    BY <2>1 DEF Answering, AnswerArrives, RestWaits, ReadBefore, ReturnsInSession,
                AnswerAuthentic, Protected
<1> QED BY <1>1, <1>2, <1>3, <1>4, <1>5, <1>6, <1>7 DEF Host

\* The card's answer carries what it answered.
LEMMA ExecutedCarries ==
  ASSUME Inv, Answering, request # None, Protected, call.at = "sent",
         NEW data \in Data(request.cmd.op), CardExecute(request.cmd, data),
         NEW last, Answer(request.cmd, data, last).cipher # None
  PROVE  LET cipher == Answer(request.cmd, data, last).cipher
         IN  /\ answered'.data = call'.ret \o Last(cipher.chain)[2]
             /\ answered'.sk = cipher.key
             /\ card_auth' # None /\ cipher.chain = card_iv'
<1> DEFINE cmd == request.cmd
           cipher == Answer(cmd, data, last).cipher
<1>1. /\ cmd.op \in Methods \ {"authenticate"}
      /\ card_iv' = IF card_auth = None THEN card_iv ELSE CardChainAfterRx(cmd, data)
      /\ answered' = [data |-> answered.data \o data,
                      sk |-> IF card_auth = None THEN None ELSE card_auth.sk]
      /\ call' = call /\ card_auth' = AuthAfter(cmd)
  BY DEF CardExecute, CanExecute
<1>2. AuthAfter(cmd) # None /\ AnswerMode(cmd) # "PLAIN"
  BY DEF Answer
<1>3. card_auth # None
  BY <1>2 DEF AuthAfter
<1>4. cipher = [key |-> card_auth.sk, chain |-> CardChainAfterRx(cmd, data),
                mode |-> AnswerMode(cmd)]
  BY <1>2 DEF Answer
<1>5. CardChainAfterRx(cmd, data) = Append(CardChainAfterTx(cmd), <<"rx", data>>)
  BY <1>2 DEF CardChainAfterRx
<1>6. <<"tx", cmd>> \in Items /\ <<"rx", data>> \in Items
  BY UnderWay, DataTyped DEF Items, Requests
<1>7. CardChainAfterTx(cmd) \in Seq(Items)
  BY <1>6 DEF CardChainAfterTx, Inv, Base, TypeOK
<1>8. Last(CardChainAfterRx(cmd, data)) = <<"rx", data>>
  BY <1>5, <1>6, <1>7 DEF Last
<1>9. answered.data = call.ret
  <2>1. cmd.op # "additional_frame"
    BY <1>1 DEF Methods, Queries, Updates
  <2> QED BY <2>1 DEF Answering, ReadBefore, AsksForMore
<1>10. cipher.chain = CardChainAfterRx(cmd, data) /\ cipher.key = card_auth.sk
  BY <1>4
<1>11. Last(cipher.chain)[2] = data
  BY <1>8, <1>10
<1> HIDE DEF cipher, cmd
<1>12. /\ answered'.data = call'.ret \o Last(cipher.chain)[2]
       /\ answered'.sk = cipher.key
       /\ card_auth' # None /\ cipher.chain = card_iv'
  BY <1>1, <1>2, <1>3, <1>9, <1>10, <1>11
<1> QED BY <1>12 DEF cipher, cmd

LEMMA CardAnswering ==
  ASSUME Inv, Answering, Card \/ Link
  PROVE  Answering'
<1>1. CASE CardChallenge \/ \E rndA \in 1 .. calls : CardProve(rndA)
  <2>1. /\ request # None /\ (request.cmd.op = "authenticate" \/ IsProof(request))
        /\ UNCHANGED <<call, returned>>
    BY <1>1 DEF CardChallenge, CardProve, Take
  <2>2. call # None /\ call.at \in {"challenge", "proof"}
    BY <2>1, UnderWay, RequestKind
  <2> QED BY <2>1, <2>2, ElsewhereAnswering
<1>2. CASE CardExecuteAny
  <2>1. PICK data \in Data(request.cmd.op) : CardExecute(request.cmd, data)
    BY <1>2 DEF CardExecuteAny
  <2>2. /\ request # None /\ request' = None /\ UNCHANGED <<call, returned, hostVars, key_bytes>>
        /\ call # None
    BY <1>2, <2>1, UnderWay DEF CardExecuteAny, CardExecute, Take, keyVars
  <2>3. ReadBefore' /\ ReturnsInSession' /\ AnswerAuthentic'
    <3>1. call.at # "next"
      BY <2>2, RequestKind
    <3> QED
      BY <2>2, <3>1 DEF Answering, ReadBefore, ReturnsInSession, AnswerAuthentic, Protected,
                        AsksForMore, hostVars
  <2>4. CASE Len(data) = 2
    <3>1. /\ response'.status = "more"
          /\ card_rest' = Answer(request.cmd, data, <<data[2]>>)
      BY <2>1, <2>4 DEF CardExecute
    <3>2. AnswerArrives'
      BY <3>1 DEF AnswerArrives
    <3>3. ASSUME Protected', call'.at = "sent"
          PROVE  Carries(card_rest.cipher)'
      <4>1. Protected /\ call.at = "sent"
        BY <2>2, <3>3 DEF Protected
      <4> QED BY <2>1, <2>2, <3>1, <4>1, ExecutedCarries DEF Carries
    <3>4. RestWaits'
      BY <3>3 DEF RestWaits
    <3> QED BY <2>3, <3>2, <3>4 DEF Answering
  <2>5. CASE Len(data) # 2
    <3>1. /\ response' = Answer(request.cmd, data, data)
          /\ card_rest' = None
      BY <2>1, <2>5 DEF CardExecute
    <3>2. ASSUME Protected', call'.at = "sent"
          PROVE  Carries(response.cipher)'
      <4>1. Protected /\ call.at = "sent"
        BY <2>2, <3>2 DEF Protected
      <4> QED BY <2>1, <2>2, <3>1, <4>1, ExecutedCarries DEF Carries
    <3>3. AnswerArrives' /\ RestWaits'
      BY <3>1, <3>2 DEF AnswerArrives, RestWaits
    <3> QED BY <2>3, <3>3 DEF Answering
  <2> QED BY <2>4, <2>5
<1>3. CASE CardContinue
  <2>1. /\ request # None /\ request' = None /\ request.cmd.op = "additional_frame"
        /\ card_rest # None /\ card_rest' = None /\ response' = card_rest
        /\ UNCHANGED <<call, returned, hostVars, key_bytes, answered, card_auth, card_iv>>
    BY <1>3 DEF CardContinue, Take, keyVars, history
  <2>2. call.at # "next"
    BY <2>1, RequestKind
  <2>3. AnswerArrives' /\ RestWaits'
    BY <2>1 DEF Answering, AnswerArrives, RestWaits, Protected, AsksForMore, Carries
  <2>4. ReadBefore' /\ ReturnsInSession' /\ AnswerAuthentic'
    BY <2>1, <2>2 DEF Answering, ReadBefore, ReturnsInSession, AnswerAuthentic, Protected,
                      hostVars
  <2> QED BY <2>3, <2>4 DEF Answering
<1>4. CASE CardRefuse
  <2>1. /\ request' = None /\ response'.status = "error"
        /\ UNCHANGED <<hostVars, key_bytes, call, returned, answered>>
    BY <1>4 DEF CardRefuse, Take, keyVars, history
  <2> QED BY <2>1, LostAnswering
<1>5. CASE Lose \/ CardReset
  <2>1. /\ request' = None /\ response' = None
        /\ UNCHANGED <<hostVars, key_bytes, call, returned, answered>>
    BY <1>5 DEF Lose, CardReset, keyVars, history
  <2> QED BY <2>1, LostAnswering
<1>6. CASE Spoil
  <2>1. /\ response # None /\ response \in Responses /\ request = None
        /\ UNCHANGED <<call, returned, request, hostVars, key_bytes, answered, card_rest,
                       card_auth, card_iv>>
    BY <1>6, UnderWay DEF Spoil, keyVars, cardVars, history
  <2>2. PICK data \in Data(call.cmd.op), cipher \in {response.cipher, None} :
          response' = [response EXCEPT !.data = data, !.cipher = cipher]
    BY <1>6 DEF Spoil
  <2>3. response'.status = response.status /\ response'.cipher = cipher
    BY <2>1, <2>2 DEF Responses
  <2>4. AnswerArrives'
    BY <2>1, <2>2, <2>3 DEF Answering, AnswerArrives, Protected, Carries
  <2>5. RestWaits'
    BY <2>1, <2>3 DEF Answering, RestWaits, Protected, AsksForMore, Carries
  <2>6. ReadBefore' /\ ReturnsInSession' /\ AnswerAuthentic'
    BY <2>1 DEF Answering, ReadBefore, ReturnsInSession, AnswerAuthentic, Protected,
                AsksForMore, hostVars
  <2> QED BY <2>4, <2>5, <2>6 DEF Answering
<1> QED BY <1>1, <1>2, <1>3, <1>4, <1>5, <1>6 DEF Card, Link

LEMMA StepAnswering ==
  ASSUME Inv, Answering, [Next]_vars
  PROVE  Answering'
<1>1. CASE Rest \/ UNCHANGED vars
  BY <1>1 DEF Rest, vars, hostVars, keyVars, cardVars, history, Answering, AnswerArrives,
              RestWaits, ReadBefore, ReturnsInSession, AnswerAuthentic, Protected, AsksForMore,
              Carries
<1> QED BY <1>1, CallerAnswering, HostAnswering, CardAnswering DEF Next

-----------------------------------------------------------------------------
(* The theorems                                                            *)

\* At every step of a protected method what is under way carries the card's answer to it
\* (_transceive, _communicate, the loop of read_file_data).
THEOREM AnsweringCorrect == Spec => []Answering
<1>1. Init => Answering
  BY InitAnswering
<1>2. Inv /\ Answering /\ [Next]_vars => Answering'
  BY StepAnswering
<1> QED
  BY <1>1, <1>2, InvCorrect, PTL DEF Spec

\* What a method returns under a MAC or a CRC is what the card answered to this method,
\* all of it, in order, and in this session (_postprocess).
THEOREM AnswerCorrect == Spec => []AnswerAuthentic
<1>1. Answering => AnswerAuthentic
  BY DEF Answering
<1> QED
  BY <1>1, AnsweringCorrect, PTL

\* The steps of EncryptedResyncs: an encrypted answer leaves the host's IV where the
\* card's is.
Resyncs ==
  /\ response # None /\ response' = None /\ faults' = faults
  /\ response.status = "ok" /\ response.cipher # None
  /\ call.at = "sent" /\ call.rx = "ENCRYPTED" /\ card_auth # None
  => iv'[session_key] = card_iv

LEMMA StepResyncs ==
  ASSUME Inv, Answering, Next
  PROVE  Resyncs
<1> SUFFICES ASSUME response # None, response' = None, faults' = faults,
                    response.status = "ok", response.cipher # None,
                    call.at = "sent", call.rx = "ENCRYPTED", card_auth # None
             PROVE  iv'[session_key] = card_iv
  BY DEF Resyncs
<1>1. call # None /\ request = None /\ response # response' /\ faults \in Nat
  BY UnderWay, ConstantsAssumption DEF Inv, Base, TypeOK
<1>2. ~Caller
  <2>1. Caller => response' = response \/ call = None
    BY CallerStep DEF NewKey, Authenticate, SendAuthenticate, Ordinary, Invoke, Inv, Base
  <2> QED BY <1>1, <2>1
<1>3. ~Card /\ ~Link /\ ~Rest
  <2>1. Card => request # None
    BY DEF Card, CardChallenge, CardProve, CardExecuteAny, CardContinue, CardRefuse, Take
  <2>2. Link => faults' = faults + 1
    BY DEF Link, Lose, Spoil, CardReset, Fault
  <2>3. Rest => response' = response
    BY DEF Rest, vars
  <2> QED BY <1>1, <2>1, <2>2, <2>3
<1>4. Host
  BY <1>2, <1>3 DEF Next
<1>5. Postprocess
  BY <1>1, <1>4
     DEF Host, ReceiveError, ReceivedError, ReceiveMore, RefuseAnswer, Return, ReturnChunk,
         AcceptAnswer, NextChunk, ReceiveChallenge, RefuseChallenge, RefuseProof, ReceiveProof,
         NoAnswer
<1>6. session_key \in KeyObjs
  BY <1>1 DEF Inv, Base, Protocol, InCommand, AuthAgreement, TypeOK
<1>7. iv'[session_key] = response.cipher.chain
  BY <1>5, <1>6 DEF Postprocess, IvAfterPostprocess, Inv, Base, TypeOK
<1>8. response.cipher.chain = card_iv
  BY <1>1 DEF Answering, AnswerArrives, Protected, Carries
<1> QED BY <1>7, <1>8

\* An encrypted answer brings the two IVs together again, even if _postprocess then refuses
\* it because of its CRC.
THEOREM ResyncCorrect == Spec => EncryptedResyncs
<1>1. Inv /\ Answering /\ [Next]_vars =>
        [ /\ response # None /\ response' = None /\ faults' = faults
          /\ response.status = "ok" /\ response.cipher # None
          /\ call.at = "sent" /\ call.rx = "ENCRYPTED" /\ card_auth # None
          => iv'[session_key] = card_iv ]_vars
  BY StepResyncs DEF Resyncs
<1> QED
  BY <1>1, InvCorrect, AnsweringCorrect, PTL DEF Spec, EncryptedResyncs

-----------------------------------------------------------------------------
(***************************************************************************)
(* The IVs of host and card are the same between two calls if no frame was *)
(* lost or damaged, no command refused, and no MAC put on an answer that a *)
(* method takes PLAIN.                                                     *)
(***************************************************************************)

EndsSession(cmd) == cmd.op = "select_application" \/ (cmd.op = "change_key" /\ cmd.same)

\* Commands a method sends in a session to have a PLAIN answer.
AnsweredPlain(cmd) ==
  \/ EndsSession(cmd)
  \/ cmd.op \in {"format_card", "delete_file"}
  \/ cmd.op = "read_file_data" /\ cmd.mode = "PLAIN"

\* What a method on the stack is, as its command tells.
CallKind ==
  call # None /\ call.at \in {"sent", "next"} =>
    /\ is_authenticated => (call.rx = "PLAIN" <=> AnsweredPlain(call.cmd))
    /\ call.left > 0 => call.cmd.op = "read_file_data"

SoFarSoGood == is_authenticated /\ ~gap
Together == card_auth # None /\ iv[session_key] = card_iv
Waiting == call # None /\ call.at = "sent"

\* Between two commands the IVs are the same.
TogetherIdle == SoFarSoGood /\ (call = None \/ call.at = "next") => Together

\* A command that is under way has gone through the host's cipher only, and its MAC or
\* ciphertext is what the card verifies.
TogetherAsking ==
  SoFarSoGood /\ Waiting /\ request # None /\ ~AsksForMore =>
    /\ card_auth # None /\ iv[session_key] = Append(card_iv, <<"tx", request.cmd>>)
    /\ request.cipher # None =>
         /\ request.cipher.key = key_bytes[session_key]
         /\ request.cipher.chain = iv[session_key]

\* A PLAIN answer goes through neither cipher ...
TogetherAnswered ==
  /\ SoFarSoGood /\ Waiting /\ call.rx = "PLAIN" /\ AnswerMode(call.cmd) = "PLAIN"
  /\ (response # None /\ response.status # "error") \/ AsksForMore
  => Together

\* ... and one under a MAC through the card's, with all that was answered since the last
\* chunk.
AheadByAnswer ==
  /\ SoFarSoGood /\ Waiting /\ call.rx = "CMAC"
  /\ (response # None /\ response.status # "error") \/ AsksForMore
  => /\ card_auth # None
     /\ \E data \in Seq(Payloads) :
          /\ card_iv = Append(iv[session_key], <<"rx", data>>)
          /\ answered.data = call.ret \o data

\* Nothing but a fault, or a refusal, keeps a method without its answer.
FaultsTold ==
  is_authenticated /\ Waiting /\ request = None /\ (response = None \/ response.status = "error")
    => gap

\* The last frame of a long answer is no error.
RestIsNoError == card_rest # None => card_rest.status = "ok"

\* The card is in the session it answers a proof with.
SessionBegun ==
  call # None /\ call.at = "proof" /\ response # None /\ response.status = "ok" =>
    card_auth # None /\ card_iv = <<>>

Stepping ==
  /\ CallKind /\ TogetherIdle /\ TogetherAsking /\ TogetherAnswered /\ AheadByAnswer
  /\ FaultsTold /\ RestIsNoError /\ SessionBegun

LEMMA InitStepping == Init => Stepping
  BY DEF Init, Stepping, CallKind, TogetherIdle, TogetherAsking, TogetherAnswered,
         AheadByAnswer, FaultsTold, RestIsNoError, SessionBegun, SoFarSoGood, Waiting

\* A method that ends leaves nothing under way.
LEMMA EndStepping ==
  ASSUME call' = None, is_authenticated' /\ ~gap' => Together', RestIsNoError'
  PROVE  Stepping'
  BY DEF Stepping, CallKind, TogetherIdle, TogetherAsking, TogetherAnswered, AheadByAnswer,
         FaultsTold, SessionBegun, SoFarSoGood, Waiting

\* A handshake runs outside of a session.
LEMMA OutsideStepping ==
  ASSUME ~is_authenticated', call'.at = "challenge" \/ (call'.at = "proof" /\ SessionBegun'),
         RestIsNoError'
  PROVE  Stepping'
  BY DEF Stepping, CallKind, TogetherIdle, TogetherAsking, TogetherAnswered, AheadByAnswer,
         FaultsTold, SessionBegun, SoFarSoGood, Waiting

\* In a session the AnsweredPlain commands are sent for a PLAIN answer, and no others, and
\* only read_file_data has more than one chunk.
LEMMA SentKind ==
  ASSUME TypeOK, Caller, call'.at = "sent"
  PROVE  \/ call = None /\ UNCHANGED call
         \/ /\ is_authenticated => (call'.rx = "PLAIN" <=> AnsweredPlain(call'.cmd))
            /\ call'.left > 0 => call'.cmd.op = "read_file_data"
<1> DEFINE Kind == /\ is_authenticated => (call'.rx = "PLAIN" <=> AnsweredPlain(call'.cmd))
                   /\ call'.left > 0 => call'.cmd.op = "read_file_data"
<1>1. \A kid, cmd, tx, rx :
        PerformFor(kid, cmd, tx, rx) => call'.cmd = cmd /\ call'.rx = rx /\ call'.left = 0
  BY DEF PerformFor, Transceive
<1>2. \A kid, cmd, tx, rx :
        /\ PerformFor(kid, cmd, tx, rx)
        /\ is_authenticated => (rx = "PLAIN" <=> AnsweredPlain(cmd))
        => Kind
  BY <1>1
<1> HIDE DEF Kind
<1>3. \A cmd, tx, rx :
        /\ Perform(cmd, tx, rx)
        /\ is_authenticated => (rx = "PLAIN" <=> AnsweredPlain(cmd))
        => Kind
  BY <1>2 DEF Perform
<1> DEFINE Macked == {"get_real_uid", "get_card_version", "get_key_setting", "get_key_version",
                      "change_key_settings", "change_default_key", "get_application_ids",
                      "create_application", "delete_application", "get_file_ids",
                      "get_file_settings", "create_standard_file", "write_file_data"}
<1>4. \A cmd, tx, rx :
        /\ Perform(cmd, tx, rx)
        /\ cmd.op \in Macked
        /\ rx \in {CmacIfAuthenticated, "CMAC", "ENCRYPTED"}
        => Kind
  <2>1. \A cmd : cmd.op \in Macked => ~AnsweredPlain(cmd)
    BY DEF AnsweredPlain, EndsSession
  <2>2. is_authenticated => "PLAIN" \notin {CmacIfAuthenticated, "CMAC", "ENCRYPTED"}
    BY DEF CmacIfAuthenticated
  <2> QED BY <1>3, <2>1, <2>2
<1>5. \A op : Command(op).op = op
  BY DEF Command
<1> HIDE DEF Macked
<1>6. ASSUME \/ GetRealUid \/ GetCardVersion \/ GetKeySetting \/ ChangeKeySettings
             \/ GetApplicationIds \/ GetFileIds \/ GetFileSettings \/ CreateStandardFile
      PROVE  Kind
  <2> DEFINE Sent == \E op \in Macked, tx \in Modes,
                      rx \in {CmacIfAuthenticated, "CMAC", "ENCRYPTED"} :
                        Perform(Command(op), tx, rx)
  <2>1. Sent
    <3>1. /\ {"get_real_uid", "get_card_version", "get_key_setting", "change_key_settings",
              "get_application_ids", "get_file_ids", "get_file_settings",
              "create_standard_file"} \subseteq Macked
          /\ "PLAIN" \in Modes /\ "ENCRYPTED" \in Modes
          /\ CmacIfAuthenticated \in Modes
      BY DEF Macked, Modes, CmacIfAuthenticated
    <3>2. CASE GetRealUid BY <3>1, <3>2 DEF GetRealUid
    <3>3. CASE GetCardVersion BY <3>1, <3>3 DEF GetCardVersion
    <3>4. CASE GetKeySetting BY <3>1, <3>4 DEF GetKeySetting
    <3>5. CASE ChangeKeySettings BY <3>1, <3>5 DEF ChangeKeySettings
    <3>6. CASE GetApplicationIds BY <3>1, <3>6 DEF GetApplicationIds
    <3>7. CASE GetFileIds BY <3>1, <3>7 DEF GetFileIds
    <3>8. CASE GetFileSettings BY <3>1, <3>8 DEF GetFileSettings
    <3>9. CASE CreateStandardFile BY <3>1, <3>9 DEF CreateStandardFile
    <3> QED BY <1>6, <3>2, <3>3, <3>4, <3>5, <3>6, <3>7, <3>8, <3>9
  <2> QED BY <1>4, <1>5, <2>1
<1>7. ASSUME NEW k \in KeyIds, GetKeyVersion(k)
      PROVE  Kind
  <2> DEFINE cmd == [Command("get_key_version") EXCEPT !.kid = k]
  <2>1. cmd.op \in Macked
    BY DEF Command, Macked
  <2>2. Perform(cmd, "PLAIN", CmacIfAuthenticated)
    BY <1>7 DEF GetKeyVersion
  <2> HIDE DEF cmd
  <2> QED BY <1>4, <2>1, <2>2
<1>8. ASSUME NEW k \in KeyIds, NEW current \in KeyObjs, NEW new \in KeyObjs,
             ChangeKey(k, current, new)
      PROVE  Kind
  <2> DEFINE number == KeyNumber(k, current, new)
             same == IsSameKey(k, number.kid)
             cmd == [Command("change_key") EXCEPT
                       !.kid = number.kid, !.flag = number.flag, !.same = same,
                       !.key = key_bytes[new], !.type = KeyType(new),
                       !.old = IF same THEN None ELSE key_bytes[current]]
  <2>1. cmd.op = "change_key" /\ cmd.same = same
    BY DEF Command
  <2>2. PerformFor(k, cmd, "ENCRYPTED", IF same THEN "PLAIN" ELSE "CMAC")
    BY <1>8 DEF ChangeKey
  <2> HIDE DEF cmd, same
  <2>3. (IF same THEN "PLAIN" ELSE "CMAC") = "PLAIN" <=> AnsweredPlain(cmd)
    BY <2>1 DEF AnsweredPlain, EndsSession
  <2> QED BY <1>2, <2>2, <2>3
<1>9. ASSUME NEW new \in KeyObjs, ChangeDefaultKey(new)
      PROVE  Kind
  <2> DEFINE cmd == [Command("change_default_key") EXCEPT !.key = key_bytes[new]]
  <2>1. cmd.op \in Macked
    BY DEF Command, Macked
  <2>2. Perform(cmd, "ENCRYPTED", "CMAC")
    BY <1>9 DEF ChangeDefaultKey
  <2> HIDE DEF cmd
  <2> QED BY <1>4, <2>1, <2>2
<1>10. ASSUME NEW a \in Apps, CreateApplication(a) \/ DeleteApplication(a)
       PROVE  Kind
  <2>1. PICK op \in {"create_application", "delete_application"} :
          Perform([Command(op) EXCEPT !.app = a], "PLAIN", "CMAC")
    BY <1>10 DEF CreateApplication, DeleteApplication
  <2>2. [Command(op) EXCEPT !.app = a].op \in Macked
    BY DEF Command, Macked
  <2> QED BY <1>4, <2>1, <2>2
<1>11. ASSUME NEW m \in FileModes, WriteFileData(m)
       PROVE  Kind
  <2> DEFINE cmd == [Command("write_file_data") EXCEPT !.mode = m]
  <2>1. cmd.op \in Macked
    BY DEF Command, Macked
  <2>2. Perform(cmd, m, CmacIfAuthenticated)
    BY <1>11 DEF WriteFileData
  <2> HIDE DEF cmd
  <2> QED BY <1>4, <2>1, <2>2
<1>12. ASSUME FormatCard \/ DeleteFile
       PROVE  Kind
  <2>1. PICK op \in {"format_card", "delete_file"}, tx \in {"PLAIN", CmacIfAuthenticated} :
          Perform(Command(op), tx, "PLAIN")
    BY <1>12 DEF FormatCard, DeleteFile
  <2>2. AnsweredPlain(Command(op))
    BY <1>5 DEF AnsweredPlain
  <2> QED BY <1>3, <2>1, <2>2
<1>13. ASSUME NEW a \in Apps, SelectApplication(a)
       PROVE  Kind
  <2> DEFINE cmd == [Command("select_application") EXCEPT !.app = a]
  <2>1. cmd.op = "select_application"
    BY DEF Command
  <2>2. Perform(cmd, "PLAIN", "PLAIN")
    BY <1>13 DEF SelectApplication
  <2> HIDE DEF cmd
  <2> QED BY <1>3, <2>1, <2>2 DEF AnsweredPlain, EndsSession
<1>14. ASSUME NEW m \in FileModes, NEW chunks \in 1 .. MaxChunks, ReadFileData(m, chunks)
       PROVE  Kind
  <2>1. ReadChunk(m, 0).op = "read_file_data" /\ ReadChunk(m, 0).mode = m
    BY DEF ReadChunk, Command
  <2>2. call'.cmd = ReadChunk(m, 0) /\ call'.rx = m
    BY <1>14 DEF ReadFileData, Transceive
  <2> QED BY <2>1, <2>2 DEF Kind, AnsweredPlain, EndsSession
<1>15. CASE \E o \in KeyObjs, s \in Secrets : NewKey(o, s)
  BY <1>15 DEF NewKey
<1>16. CASE \E k \in KeyIds, o \in KeyObjs : Authenticate(k, o)
  BY <1>16 DEF Authenticate, SendAuthenticate
<1> QED
  BY <1>6, <1>7, <1>8, <1>9, <1>10, <1>11, <1>12, <1>13, <1>14, <1>15, <1>16
     DEF Caller, Kind

\* What NextChunk and the public methods do to the IV.
LEMMA SendStepping ==
  ASSUME Inv, NEW kid, NEW cmd, NEW tx, NEW rx, NEW ret, NEW left,
         cmd.op # "additional_frame",
         Transceive(kid, cmd, tx, rx, ret, left), call' # None, request' # None,
         response' = None, UNCHANGED <<hostVars, key_bytes, card_auth, card_iv, gap>>,
         is_authenticated /\ ~gap => Together,
         is_authenticated => (rx = "PLAIN" <=> AnsweredPlain(cmd)),
         left > 0 => cmd.op = "read_file_data", RestIsNoError'
  PROVE  Stepping'
<1>1. /\ request' = Preprocess(cmd, tx) /\ call'.at = "sent"
      /\ call'.cmd = cmd /\ call'.rx = rx /\ call'.left = left
      /\ iv' = IvAfterPreprocess(cmd)
  BY DEF Transceive
<1>2. /\ request'.cmd = cmd
      /\ request'.cipher # None =>
           /\ request'.cipher.key = key_bytes[session_key]
           /\ request'.cipher.chain = ChainAfterTx(cmd)
  BY <1>1 DEF Preprocess
<1>3. is_authenticated => session_key \in KeyObjs /\ iv'[session_key] = ChainAfterTx(cmd)
  BY <1>1 DEF IvAfterPreprocess, Inv, Base, AuthAgreement, TypeOK
<1>4. CallKind'
  BY <1>1 DEF CallKind, hostVars
<1>5. TogetherAsking'
  BY <1>1, <1>2, <1>3 DEF TogetherAsking, SoFarSoGood, Together, ChainAfterTx, hostVars
<1>6. TogetherIdle' /\ TogetherAnswered' /\ AheadByAnswer' /\ SessionBegun'
  BY <1>1, <1>2 DEF TogetherIdle, TogetherAnswered, AheadByAnswer, SessionBegun, AsksForMore
<1>7. FaultsTold'
  BY DEF FaultsTold
<1> QED BY <1>4, <1>5, <1>6, <1>7 DEF Stepping

LEMMA CallerStepping ==
  ASSUME Inv, Stepping, Caller
  PROVE  Stepping'
<1>1. TypeOK /\ AuthAgreement /\ <<>> \in Seq(Payloads)
  BY DEF Inv, Base
<1> RestIsNoError'
  <2>1. UNCHANGED card_rest
    BY CallerStep DEF NewKey, Authenticate, SendAuthenticate, Ordinary, Invoke, cardVars, Inv, Base
  <2> QED BY <2>1 DEF Stepping, RestIsNoError
<1>2. ASSUME NEW o \in KeyObjs, NEW s \in Secrets, NewKey(o, s)
      PROVE  Stepping'
  <2>1. is_authenticated => iv'[session_key] = iv[session_key]
    BY <1>1, <1>2 DEF NewKey, AuthAgreement, TypeOK
  <2>2. call' = None /\ call = None /\ UNCHANGED <<hostVars, gap, card_auth, card_iv>>
    BY <1>2 DEF NewKey, cardVars, history
  <2> QED
    BY <2>1, <2>2, EndStepping DEF Stepping, TogetherIdle, SoFarSoGood, Together, hostVars
<1>3. ASSUME NEW k \in KeyIds, NEW o \in KeyObjs, Authenticate(k, o)
      PROVE  Stepping'
  <2>1. ~is_authenticated' /\ call'.at = "challenge"
    BY <1>3 DEF Authenticate, SendAuthenticate
  <2> QED BY <2>1, OutsideStepping
<1>4. ASSUME NEW kid \in Numbers, NEW cmd \in Commands, NEW tx \in Modes,
             NEW rx \in Modes, NEW left \in Nat,
             cmd.op \in Methods \ {"authenticate"}, Ordinary(kid, cmd, tx, rx, left)
      PROVE  Stepping'
  <2>1. Transceive(kid, cmd, tx, rx, <<>>, left)
    BY <1>4 DEF Ordinary
  <2>2. /\ call'.cmd = cmd /\ call'.rx = rx /\ call'.left = left /\ call'.at = "sent"
    BY <2>1 DEF Transceive
  <2>3. call' # None /\ request' # None
    BY <1>1, <2>1, TransceiveTyped, NoneAssumption
  <2>4. /\ call = None /\ response' = None
        /\ UNCHANGED <<hostVars, key_bytes, card_auth, card_iv, gap>>
    BY <1>4, UnderWay DEF Ordinary, Invoke, cardVars
  <2>5. cmd.op # "additional_frame"
    BY <1>4 DEF Methods, Queries, Updates
  <2>6. is_authenticated /\ ~gap => Together
    BY <2>4 DEF Stepping, TogetherIdle, SoFarSoGood
  <2>7. /\ is_authenticated => (rx = "PLAIN" <=> AnsweredPlain(cmd))
        /\ left > 0 => cmd.op = "read_file_data"
    BY <1>1, <2>2, <2>3, <2>4, SentKind
  <2> QED BY <2>1, <2>3, <2>4, <2>5, <2>6, <2>7, SendStepping
<1> QED BY <1>1, <1>2, <1>3, <1>4, CallerStep

\* What comes after the same beginning is the same.
LEMMA SameRest ==
  ASSUME NEW S, NEW a \in Seq(S), NEW b \in Seq(S), NEW c \in Seq(S), a \o b = a \o c
  PROVE  b = c
<1>1. Len(b) = Len(c)
  <2>1. Len(a \o b) = Len(a) + Len(b) /\ Len(a \o c) = Len(a) + Len(c)
    OBVIOUS
  <2> QED BY <2>1
<1>2. ASSUME NEW i \in 1 .. Len(b)
      PROVE  b[i] = c[i]
  <2>1. (a \o b)[Len(a) + i] = b[i] /\ (a \o c)[Len(a) + i] = c[i]
    BY <1>1
  <2> QED BY <2>1
<1> QED BY <1>1, <1>2, SeqEqual

\* What _postprocess leaves behind, if the object still believes in its session.
LEMMA ReceivedStepping ==
  ASSUME Inv, Answering, Stepping, AcceptAnswer \/ RefuseAnswer, gap' = GapAfterPostprocess,
         ~gap', is_authenticated, ~EndsSession(call.cmd)
  PROVE  card_auth' # None /\ iv'[session_key] = card_iv'
<1>1. /\ Postprocess /\ iv' = IvAfterPostprocess
      /\ UNCHANGED <<card_auth, card_iv>>
  BY DEF AcceptAnswer, RefuseAnswer, Postprocess, cardVars
<1>2. /\ call # None /\ call \in Running /\ call.at = "sent"
      /\ response # None /\ response \in Responses /\ response.status = "ok"
      /\ session_key \in KeyObjs /\ iv \in [KeyObjs -> Seq(Items)]
  BY <1>1, UnderWay DEF Postprocess, Consume, Inv, Base, AuthAgreement, TypeOK
<1>3. CASE call.rx = "PLAIN"
  <2>1. ~gap /\ iv' = iv /\ (is_authenticated => AnswerMode(call.cmd) = "PLAIN")
    BY <1>1, <1>3 DEF GapAfterPostprocess, IvAfterPostprocess
  <2> QED
    BY <1>1, <1>2, <1>3, <2>1 DEF Stepping, TogetherAnswered, Waiting, SoFarSoGood, Together
<1>4. CASE call.rx = "ENCRYPTED"
  <2>1. response.cipher # None
    BY <1>4 DEF GapAfterPostprocess
  <2>2. Carries(response.cipher)
    BY <1>2, <1>4 DEF Answering, AnswerArrives, Protected
  <2>3. iv'[session_key] = response.cipher.chain
    BY <1>1, <1>2, <1>4, <2>1 DEF IvAfterPostprocess
  <2> QED BY <1>1, <2>1, <2>2, <2>3 DEF Carries
<1>5. CASE call.rx = "CMAC"
  <2>1. ~gap /\ call.ret \o Received = answered.data
    BY <1>5 DEF GapAfterPostprocess
  <2>2. PICK data \in Seq(Payloads) :
          card_iv = Append(iv[session_key], <<"rx", data>>) /\ answered.data = call.ret \o data
    BY <1>2, <1>5, <2>1 DEF Stepping, AheadByAnswer, Waiting, SoFarSoGood
  <2>3. call.ret \in Seq(Payloads) /\ call.got \in Seq(Payloads) /\ response.data \in Seq(Payloads)
    BY <1>2 DEF Running, Responses
  <2>4. Received \in Seq(Payloads)
    BY <2>3 DEF Received
  <2>5. Received = data
    BY <2>1, <2>2, <2>3, <2>4, SameRest
  <2>6. iv'[session_key] = Append(iv[session_key], <<"rx", data>>)
    BY <1>1, <1>2, <1>5, <2>5 DEF IvAfterPostprocess, ChainAfterRx
  <2>7. card_auth # None
    BY <1>2, <1>5, <2>1 DEF Stepping, AheadByAnswer, Waiting, SoFarSoGood
  <2> QED BY <1>1, <2>2, <2>6, <2>7
<1> QED BY <1>2, <1>3, <1>4, <1>5 DEF Running, Modes

LEMMA HostStepping ==
  ASSUME Inv, Belief, Answering, Stepping, Host
  PROVE  Stepping'
<1> RestIsNoError'
  <2>1. UNCHANGED card_rest
    BY DEF Host, ReceiveError, ReceivedError, ReceiveMore, RefuseAnswer, Return, ReturnChunk,
           AcceptAnswer, Postprocess, NextChunk, ReceiveChallenge, RefuseChallenge, RefuseProof,
           ReceiveProof, NoAnswer, cardVars
  <2> QED BY <2>1 DEF Stepping, RestIsNoError
<1>1. CASE ReceiveError \/ NoAnswer
  <2>1. /\ call # None /\ call \in Running /\ call.at # "next" /\ request = None
        /\ response = None \/ response.status = "error"
        /\ call' = None /\ UNCHANGED <<hostVars, gap>>
    <3>1. CASE ReceiveError
      <4>1. response # None /\ response.status = "error" /\ call' = None
            /\ UNCHANGED <<hostVars, gap>>
        BY <3>1 DEF ReceiveError, ReceivedError, Consume, history
      <4>2. call # None /\ call \in Running /\ request = None /\ call.at # "next"
        BY <4>1, UnderWay DEF Inv, Base, Protocol, InCommand
      <4> QED BY <4>1, <4>2
    <3>2. CASE NoAnswer
      BY <3>2, UnderWay DEF NoAnswer, Raise
    <3> QED BY <1>1, <3>1, <3>2
  <2>2. is_authenticated => call.at = "sent"
    BY <2>1 DEF Inv, Base, Protocol, InHandshake, Running, CallStates
  <2>3. is_authenticated' => gap'
    BY <2>1, <2>2 DEF Stepping, FaultsTold, Waiting, hostVars
  <2> QED BY <2>1, <2>3, EndStepping
<1>2. CASE RefuseChallenge \/ RefuseProof
  <2>1. call # None /\ call.at \in {"challenge", "proof"} /\ call' = None
        /\ UNCHANGED hostVars
    BY <1>2, UnderWay DEF RefuseChallenge, RefuseProof, Consume, Raise
  <2>2. ~is_authenticated'
    BY <2>1 DEF Inv, Base, Protocol, InHandshake, hostVars
  <2> QED BY <2>1, <2>2, EndStepping
<1>3. CASE RefuseAnswer
  <2>1. /\ call # None /\ call' = None /\ UNCHANGED hostVars /\ gap' = GapAfterPostprocess
        /\ call.rx # "PLAIN"
    BY <1>3, UnderWay DEF RefuseAnswer, Postprocess, Consume, Raise
  <2>2. ~EndsSession(call.cmd)
    BY <2>1 DEF EndsSession, Answering, ReturnsInSession, Protected, Belief, SelectAnswered,
                SelectUnderWay
  <2> QED BY <1>3, <2>1, <2>2, ReceivedStepping, EndStepping DEF Together, hostVars
<1>4. CASE Return
  <2>1. /\ AcceptAnswer /\ call' = None /\ gap' = GapAfterPostprocess
        /\ HostAfterReturn(call.cmd)
    BY <1>4 DEF Return
  <2>2. is_authenticated' => UNCHANGED hostVars /\ ~EndsSession(call.cmd)
    BY <2>1 DEF HostAfterReturn, EndsSession
  <2> QED BY <2>1, <2>2, ReceivedStepping, EndStepping DEF Together, hostVars
<1>5. CASE ReturnChunk
  <2>1. /\ call # None /\ call \in Running /\ call.at = "sent" /\ call.left > 0
        /\ call' = [call EXCEPT !.at = "next", !.ret = ReadSoFar]
        /\ AcceptAnswer /\ gap' = GapAfterPostprocess
        /\ UNCHANGED hostVars
    BY <1>5, UnderWay DEF ReturnChunk, AcceptAnswer, Postprocess, Consume, MoreChunks
  <2>2. /\ call'.rx = call.rx /\ call'.cmd = call.cmd /\ call'.left = call.left
        /\ call'.at = "next"
    BY <2>1 DEF Running
  <2>3. call.cmd.op = "read_file_data"
    BY <2>1 DEF Stepping, CallKind
  <2>4. CallKind'
    BY <2>1, <2>2 DEF Stepping, CallKind, hostVars
  <2>5. TogetherIdle'
    BY <2>1, <2>3, ReceivedStepping DEF EndsSession, TogetherIdle, SoFarSoGood, Together, hostVars
  <2> QED
    BY <2>2, <2>4, <2>5 DEF Stepping, TogetherAsking, TogetherAnswered, AheadByAnswer,
                            FaultsTold, SessionBegun, Waiting
<1>6. CASE ReceiveMore
  <2>1. /\ call # None /\ call \in Running /\ call.at = "sent"
        /\ response # None /\ response.status = "more"
        /\ call' = [call EXCEPT !.got = @ \o response.data]
        /\ request' = [cmd |-> Command("additional_frame"), cipher |-> None]
        /\ response' = None
        /\ UNCHANGED <<hostVars, iv, card_auth, card_iv, gap, answered>>
    BY <1>6, UnderWay DEF ReceiveMore, Consume, keyVars, cardVars, history
  <2>2. /\ call'.rx = call.rx /\ call'.cmd = call.cmd /\ call'.left = call.left
        /\ call'.at = "sent" /\ call'.ret = call.ret
    BY <2>1 DEF Running
  <2>3. call' # None /\ request' # None
    <3>1. response.data \in Seq(Payloads) /\ call.got \in Seq(Payloads)
      BY <2>1, UnderWay DEF Responses, Running
    <3>2. call.got \o response.data \in Seq(Payloads)
      BY <3>1
    <3>3. call' \in Running
      BY <2>1, <3>2 DEF Running
    <3>4. Command("additional_frame") \in Commands
      BY CommandTyped DEF Ops, Special
    <3>5. request' \in Requests
      BY <2>1, <3>4 DEF Requests
    <3> QED BY <3>3, <3>5, NoneAssumption
  <2>4. request'.cmd.op = "additional_frame"
    BY <2>1 DEF Command
  <2>5. CallKind' /\ TogetherAnswered' /\ AheadByAnswer'
    BY <2>1, <2>2, <2>3
       DEF Stepping, CallKind, TogetherAnswered, AheadByAnswer, SoFarSoGood, Waiting,
           Together, hostVars
  <2>6. TogetherIdle' /\ TogetherAsking' /\ FaultsTold' /\ SessionBegun'
    BY <2>2, <2>3, <2>4 DEF TogetherIdle, TogetherAsking, FaultsTold, SessionBegun, AsksForMore
  <2> QED BY <2>5, <2>6 DEF Stepping
<1>7. CASE NextChunk
  <2> DEFINE cmd == ReadChunk(call.cmd.mode, call.cmd.part + 1)
  <2>1. cmd.op = "read_file_data" /\ cmd.mode = call.cmd.mode
    BY DEF ReadChunk, Command
  <2>2. Transceive(None, cmd, "PLAIN", call.rx, call.ret, call.left - 1)
    BY <1>7 DEF NextChunk
  <2>3. /\ call # None /\ call.at = "next" /\ call.left > 0
        /\ UNCHANGED <<hostVars, key_bytes, card_auth, card_iv, gap>>
        /\ response' = None
    BY <1>7 DEF NextChunk, history, cardVars, Inv, Base, Protocol, InCommand
  <2>4. call' # None /\ request' # None
    <3>1. call' \in Running /\ request' \in Requests
      BY <1>7, NextChunkTyped DEF Inv
    <3> QED BY <3>1, NoneAssumption
  <2> HIDE DEF cmd
  <2>5. is_authenticated /\ ~gap => Together
    BY <2>3 DEF Stepping, TogetherIdle, SoFarSoGood
  <2>6. is_authenticated => (call.rx = "PLAIN" <=> AnsweredPlain(cmd))
    BY <2>1, <2>3 DEF Stepping, CallKind, AnsweredPlain, EndsSession
  <2> QED BY <2>1, <2>2, <2>3, <2>4, <2>5, <2>6, SendStepping
<1>8. CASE ReceiveChallenge
  <2>1. call # None /\ call \in Running /\ call.at = "challenge" /\ response' = None
    BY <1>8, UnderWay DEF ReceiveChallenge, Consume
  <2>2. call'.at = "proof" /\ UNCHANGED hostVars
    BY <1>8, <2>1 DEF ReceiveChallenge, Running
  <2>3. ~is_authenticated'
    BY <2>1, <2>2 DEF Inv, Base, Protocol, InHandshake, hostVars
  <2>4. SessionBegun'
    BY <2>1 DEF SessionBegun
  <2> QED BY <2>2, <2>3, <2>4, OutsideStepping
<1>9. CASE ReceiveProof
  <2>1. /\ call # None /\ call \in Running /\ call.at = "proof" /\ call' = None
        /\ session_key' = call.key /\ iv' = [iv EXCEPT ![call.key] = <<>>]
        /\ response # None /\ response.status = "ok"
        /\ UNCHANGED <<card_auth, card_iv>>
    BY <1>9, UnderWay DEF ReceiveProof, Consume, cardVars
  <2>2. call.key \in KeyObjs /\ iv \in [KeyObjs -> Seq(Items)]
    BY <2>1 DEF Inv, Base, TypeOK, Protocol, InHandshake, Running
  <2>3. iv'[session_key'] = <<>>
    BY <2>1, <2>2
  <2>4. card_auth' # None /\ card_iv' = <<>>
    BY <2>1 DEF Stepping, SessionBegun
  <2> QED BY <2>1, <2>3, <2>4, EndStepping DEF Together
<1> QED BY <1>1, <1>2, <1>3, <1>4, <1>5, <1>6, <1>7, <1>8, <1>9 DEF Host

\* The commands answered PLAIN go through the card's cipher once, or end its session.
LEMMA AnsweredWithoutMac ==
  ASSUME NEW cmd, AnswerMode(cmd) = "PLAIN", NEW data
  PROVE  /\ CardChainAfterRx(cmd, data) = Append(card_iv, <<"tx", cmd>>)
         /\ AuthAfter(cmd) = card_auth
<1>1. cmd.op \in {"format_card", "delete_file", "read_file_data"}
  BY DEF AnswerMode, PlainOnCard
<1>2. AuthAfter(cmd) = card_auth
  BY <1>1 DEF AuthAfter, DeletesSelected
<1> QED BY <1>2 DEF CardChainAfterRx, CardChainAfterTx

\* The others go through it with their answers.
LEMMA AnsweredWithMac ==
  ASSUME NEW cmd, ~AnsweredPlain(cmd), ~DeletesSelected(cmd), NEW data
  PROVE  /\ CardChainAfterRx(cmd, data) = Append(Append(card_iv, <<"tx", cmd>>), <<"rx", data>>)
         /\ AuthAfter(cmd) = card_auth
<1>1. AnswerMode(cmd) # "PLAIN"
  <2>1. ~PlainOnCard(cmd) /\ (cmd.op = "read_file_data" => cmd.mode # "PLAIN")
    BY DEF AnsweredPlain, PlainOnCard
  <2> QED BY <2>1 DEF AnswerMode
<1>2. AuthAfter(cmd) = card_auth
  BY DEF AnsweredPlain, EndsSession, AuthAfter
<1> QED BY <1>1, <1>2 DEF CardChainAfterRx, CardChainAfterTx

LEMMA ExecuteStepping ==
  ASSUME Inv, Belief, Answering, Stepping, CardExecuteAny
  PROVE  Stepping'
<1>1. PICK data \in Data(request.cmd.op) : CardExecute(request.cmd, data)
  BY DEF CardExecuteAny
<1>2. /\ request # None /\ request' = None /\ call # None
      /\ UNCHANGED <<call, hostVars, iv>>
      /\ card_auth' = AuthAfter(request.cmd)
      /\ card_iv' = IF card_auth = None THEN card_iv ELSE CardChainAfterRx(request.cmd, data)
      /\ answered'.data = answered.data \o data
      /\ gap' = (gap \/ DeletesSelected(request.cmd))
  BY <1>1, UnderWay DEF CardExecuteAny, CardExecute, Take, keyVars
<1>3. request.cmd = call.cmd /\ request.cmd.op # "additional_frame"
      /\ request.cmd.op # "authenticate"
  BY <1>1, <1>2, ExecutedIsOwn
<1>4. call.at = "sent" /\ ~AsksForMore
  BY <1>2, <1>3, RequestKind DEF IsProof, AsksForMore
<1>5. response' # None /\ response'.status # "error"
      /\ (card_rest' # None => card_rest'.status = "ok")
  <2>1. response' \in Responses
    BY <1>1, <1>2, CardExecuteTyped DEF Inv
  <2>2. /\ response'.status # "error"
        /\ card_rest' # None => card_rest'.status = "ok"
    BY <1>1 DEF CardExecute, Answer
  <2> QED BY <2>1, <2>2, NoneAssumption
<1>6. SoFarSoGood' => SoFarSoGood /\ ~DeletesSelected(call.cmd)
  BY <1>2, <1>3 DEF SoFarSoGood, hostVars
<1>7. SoFarSoGood => card_auth # None /\ iv[session_key] = Append(card_iv, <<"tx", call.cmd>>)
  BY <1>2, <1>3, <1>4 DEF Stepping, TogetherAsking, Waiting
<1>8. TogetherAnswered'
  <2> SUFFICES ASSUME SoFarSoGood, AnswerMode(call.cmd) = "PLAIN"
               PROVE  Together'
    BY <1>2, <1>6 DEF TogetherAnswered
  <2> QED BY <1>2, <1>3, <1>7, AnsweredWithoutMac DEF Together, hostVars
<1>9. AheadByAnswer'
  <2> SUFFICES ASSUME SoFarSoGood, ~DeletesSelected(call.cmd), call.rx = "CMAC"
               PROVE  /\ card_auth' # None
                      /\ card_iv' = Append(iv[session_key], <<"rx", data>>)
                      /\ answered'.data = call.ret \o data
                      /\ data \in Seq(Payloads)
    BY <1>2, <1>6 DEF AheadByAnswer, hostVars
  <2>1. ~AnsweredPlain(call.cmd)
    BY <1>2, <1>4 DEF Stepping, CallKind, SoFarSoGood
  <2>2. answered.data = call.ret
    BY <1>2, <1>4 DEF Answering, ReadBefore, Protected
  <2>3. data \in Seq(Payloads)
    BY DataTyped
  <2> QED BY <1>2, <1>3, <1>7, <2>1, <2>2, <2>3, AnsweredWithMac
<1>10. CallKind' /\ TogetherIdle' /\ TogetherAsking' /\ FaultsTold' /\ RestIsNoError'
         /\ SessionBegun'
  BY <1>2, <1>4, <1>5 DEF Stepping, CallKind, TogetherIdle, TogetherAsking, FaultsTold,
                          RestIsNoError, SessionBegun, hostVars
<1> QED BY <1>8, <1>9, <1>10 DEF Stepping

\* Before anything went wrong, the card refuses a command only although its MAC was right.
LEMMA RefusedAlthoughRight ==
  ASSUME Inv, Stepping, CardRefuse, is_authenticated, Waiting
  PROVE  gap'
<1>1. request # None /\ gap' = (gap \/ Verifies(request)) /\ call # None
  BY UnderWay DEF CardRefuse, Take
<1>2. CASE gap
  BY <1>1, <1>2
<1>3. CASE AsksForMore
  <2>1. request.cipher = None
    BY <1>1, <1>3, RequestKind DEF IsProof, AsksForMore, Waiting
  <2> QED BY <1>1, <2>1 DEF Verifies
<1>4. CASE ~gap /\ ~AsksForMore
  <2>1. /\ card_auth # None /\ iv[session_key] = Append(card_iv, <<"tx", request.cmd>>)
        /\ request.cipher # None =>
             /\ request.cipher.key = key_bytes[session_key]
             /\ request.cipher.chain = iv[session_key]
    BY <1>1, <1>4 DEF Stepping, TogetherAsking, SoFarSoGood
  <2>2. card_auth.sk = key_bytes[session_key]
    BY <2>1 DEF Inv, Agreement, SessionAgreement
  <2> QED BY <1>1, <2>1, <2>2 DEF Verifies
<1> QED BY <1>2, <1>3, <1>4

LEMMA CardStepping ==
  ASSUME Inv, Belief, Answering, Stepping, Card \/ Link
  PROVE  Stepping'
<1>1. CASE CardChallenge
  <2>1. call # None /\ call.at = "challenge" /\ UNCHANGED <<call, hostVars>>
        /\ card_rest' = None
    BY <1>1, UnderWay, RequestKind DEF CardChallenge, Take
  <2>2. ~is_authenticated'
    BY <2>1 DEF Inv, Base, Protocol, InHandshake, hostVars
  <2>3. RestIsNoError'
    BY <2>1 DEF RestIsNoError
  <2> QED BY <2>1, <2>2, <2>3, OutsideStepping
<1>2. CASE \E rndA \in 1 .. calls : CardProve(rndA)
  <2>1. /\ request # None /\ IsProof(request) /\ UNCHANGED <<call, hostVars, card_rest>>
        /\ card_iv' = <<>> /\ card_auth' \in Sessions
    <3>1. PICK rndA \in 1 .. calls : CardProve(rndA)
      BY <1>2
    <3>2. card_chal # None
      BY <3>1 DEF CardProve, ProofFor
    <3>3. card_auth' = [sk |-> <<rndA, card_chal.rnd>>, kid |-> card_chal.kid]
      BY <3>1 DEF CardProve
    <3>4. card_chal.rnd \in Nat /\ card_chal.kid \in KeyIds /\ rndA \in Nat
      BY <3>2 DEF Inv, Base, TypeOK, Challenges
    <3> QED BY <3>1, <3>3, <3>4 DEF CardProve, Take, Sessions, SessionKeys
  <2>2. call # None /\ call.at = "proof" /\ card_auth' # None
    BY <2>1, UnderWay, RequestKind, NoneAssumption
  <2>3. ~is_authenticated'
    BY <2>1, <2>2 DEF Inv, Base, Protocol, InHandshake, hostVars
  <2>4. SessionBegun' /\ RestIsNoError'
    BY <2>1, <2>2 DEF SessionBegun, RestIsNoError, Stepping
  <2> QED BY <2>1, <2>2, <2>3, <2>4, OutsideStepping
<1>3. CASE CardExecuteAny
  BY <1>3, ExecuteStepping
<1>4. CASE CardContinue
  <2>1. /\ request # None /\ AsksForMore /\ request.cipher = None /\ request' = None
        /\ card_rest # None /\ response' = card_rest /\ card_rest' = None
        /\ UNCHANGED <<call, hostVars, iv, gap, answered, card_auth, card_iv>>
    BY <1>4 DEF CardContinue, Take, AsksForMore, keyVars, history
  <2>2. call # None /\ call.at = "sent"
    BY <2>1, UnderWay, RequestKind DEF IsProof, AsksForMore
  <2>3. response' # None /\ response'.status # "error"
    BY <2>1 DEF Stepping, RestIsNoError
  <2>4. TogetherAnswered' /\ AheadByAnswer'
    BY <2>1, <2>2 DEF Stepping, TogetherAnswered, AheadByAnswer, SoFarSoGood, Waiting, Together,
                      hostVars
  <2> QED
    BY <2>1, <2>2, <2>3, <2>4
       DEF Stepping, CallKind, TogetherIdle, TogetherAsking, FaultsTold, RestIsNoError,
           SessionBegun, hostVars
<1>5. CASE CardRefuse
  <2>1. /\ request # None /\ request' = None /\ response'.status = "error"
        /\ card_rest' = None /\ UNCHANGED <<call, hostVars>>
    BY <1>5 DEF CardRefuse, Take
  <2>2. call # None /\ call.at # "next"
    BY <2>1, UnderWay, RequestKind
  <2>3. FaultsTold'
    BY <1>5, <2>1, RefusedAlthoughRight DEF FaultsTold, Waiting, hostVars
  <2> QED
    BY <2>1, <2>2, <2>3 DEF Stepping, CallKind, TogetherIdle, TogetherAsking, TogetherAnswered,
                            AheadByAnswer, RestIsNoError, SessionBegun, AsksForMore, hostVars
<1>6. CASE Lose \/ CardReset
  <2>1. /\ gap' = TRUE /\ request' = None /\ response' = None
        /\ card_rest' \in {None, card_rest} /\ UNCHANGED <<call, hostVars>>
    BY <1>6 DEF Lose, CardReset, cardVars
  <2> QED
    BY <2>1 DEF Stepping, CallKind, TogetherIdle, TogetherAsking, TogetherAnswered,
                AheadByAnswer, FaultsTold, RestIsNoError, SessionBegun, SoFarSoGood, hostVars
<1>7. CASE Spoil
  <2>1. /\ response # None /\ response'.status = response.status /\ request = None
        /\ response.status # "error"
        /\ UNCHANGED <<call, request, hostVars, iv, gap, answered, card_auth, card_iv, card_rest>>
    BY <1>7, UnderWay DEF Spoil, Responses, keyVars, cardVars, history
  <2>2. response' # None
    <3>1. response' \in Responses
      BY <1>7, SpoilTyped DEF Inv
    <3> QED BY <3>1, NoneAssumption
  <2>3. TogetherAnswered' /\ AheadByAnswer'
    BY <2>1 DEF Stepping, TogetherAnswered, AheadByAnswer, SoFarSoGood, Waiting, Together,
                AsksForMore, hostVars
  <2> QED
    BY <2>1, <2>2, <2>3
       DEF Stepping, CallKind, TogetherIdle, TogetherAsking, FaultsTold, RestIsNoError,
           SessionBegun, SoFarSoGood, Together, hostVars
<1> QED BY <1>1, <1>2, <1>3, <1>4, <1>5, <1>6, <1>7 DEF Card, Link

LEMMA StepStepping ==
  ASSUME Inv, Belief, Answering, Stepping, [Next]_vars
  PROVE  Stepping'
<1>1. CASE Rest \/ UNCHANGED vars
  <2>1. UNCHANGED <<is_authenticated, session_key, key_bytes, iv, call, request, response,
                    card_auth, card_iv, card_rest, answered, gap>>
    BY <1>1 DEF Rest, vars, hostVars, keyVars, cardVars, history
  <2>2. CallKind' /\ TogetherIdle' /\ TogetherAsking' /\ TogetherAnswered'
    BY <2>1 DEF Stepping, CallKind, TogetherIdle, TogetherAsking, TogetherAnswered, SoFarSoGood,
                Waiting, Together, AsksForMore
  <2>3. AheadByAnswer' /\ FaultsTold' /\ RestIsNoError' /\ SessionBegun'
    BY <2>1 DEF Stepping, AheadByAnswer, FaultsTold, RestIsNoError, SessionBegun, SoFarSoGood,
                Waiting, AsksForMore
  <2> QED BY <2>2, <2>3 DEF Stepping
<1> QED BY <1>1, CallerStepping, HostStepping, CardStepping DEF Next

\* Between two calls, if nothing went wrong in the session, the card is in it too, and the
\* IVs of _preprocess and _postprocess are the card's; a MAC on an answer that a method
\* takes PLAIN counts as going wrong.
THEOREM InStepCorrect == Spec => []InStep
<1>1. Init => Stepping
  BY InitStepping
<1>2. Inv /\ Belief /\ Answering /\ Stepping /\ [Next]_vars => Stepping'
  BY StepStepping
<1>3. Stepping => InStep
  BY DEF Stepping, TogetherIdle, SoFarSoGood, Together, InStep
<1> QED
  BY <1>1, <1>2, <1>3, InvCorrect, BeliefCorrect, AnsweringCorrect, PTL DEF Spec

-----------------------------------------------------------------------------
(***************************************************************************)
(* What InStep excuses has a cause: before the first fault the frames      *)
(* under way hold all that the card answered, with a MAC or a ciphertext.  *)
(***************************************************************************)

Asking == Protected /\ call.at = "sent" /\ request # None /\ ~AsksForMore
Answered == Protected /\ call.at = "sent" /\ response # None /\ response.status = "ok"
Halfway == Protected /\ call.at = "sent" /\ response # None /\ response.status = "more"
Continuing == Protected /\ call.at = "sent" /\ AsksForMore

\* What has been read, what arrives and what the card still holds is its answer.
Whole ==
  faults = 0 =>
    /\ Asking => call.got = <<>>
    /\ Answered => call.ret \o Received = answered.data
    /\ Halfway => call.ret \o (Received \o card_rest.data) = answered.data
    /\ Continuing => call.ret \o (call.got \o card_rest.data) = answered.data

\* And its last frame has a MAC or a ciphertext.
Sealed ==
  faults = 0 /\ ~gap =>
    /\ Answered => response.cipher # None
    /\ Halfway \/ Continuing => card_rest.cipher # None

LEMMA InitWhole == Init => Whole /\ Sealed
  BY DEF Init, Whole, Sealed, Asking, Answered, Halfway, Continuing, Protected

\* A method that is not waiting for an answer has none.
LEMMA ElsewhereWhole ==
  ASSUME call' = None \/ call'.at # "sent" \/ call'.rx = "PLAIN"
  PROVE  Whole' /\ Sealed'
  BY DEF Whole, Sealed, Asking, Answered, Halfway, Continuing, Protected

\* A command that has just been sent.
LEMMA SentWhole ==
  ASSUME NEW kid, NEW cmd, NEW tx, NEW rx, NEW ret, NEW left,
         cmd.op # "additional_frame", Transceive(kid, cmd, tx, rx, ret, left), response' = None
  PROVE  Whole' /\ Sealed'
<1>1. request'.cmd = cmd /\ call'.got = <<>>
  BY DEF Transceive, Preprocess
<1> QED
  BY <1>1 DEF Whole, Sealed, Asking, Answered, Halfway, Continuing, AsksForMore

LEMMA CallerWhole ==
  ASSUME Inv, Whole, Sealed, Caller
  PROVE  Whole' /\ Sealed'
<1>1. ASSUME NEW o \in KeyObjs, NEW s \in Secrets, NewKey(o, s)
      PROVE  Whole' /\ Sealed'
  BY <1>1, ElsewhereWhole DEF NewKey
<1>2. ASSUME NEW k \in KeyIds, NEW o \in KeyObjs, Authenticate(k, o)
      PROVE  Whole' /\ Sealed'
  <2>1. call'.at = "challenge"
    BY <1>2 DEF Authenticate, SendAuthenticate
  <2> QED BY <2>1, ElsewhereWhole
<1>3. ASSUME NEW kid \in Numbers, NEW cmd \in Commands, NEW tx \in Modes,
             NEW rx \in Modes, NEW left \in Nat,
             cmd.op \in Methods \ {"authenticate"}, Ordinary(kid, cmd, tx, rx, left)
      PROVE  Whole' /\ Sealed'
  <2>1. Transceive(kid, cmd, tx, rx, <<>>, left) /\ call = None /\ response' = None
    BY <1>3, UnderWay DEF Ordinary, Invoke
  <2>2. cmd.op # "additional_frame"
    BY <1>3 DEF Methods, Queries, Updates
  <2> QED BY <2>1, <2>2, SentWhole
<1> QED BY <1>1, <1>2, <1>3, CallerStep DEF Inv, Base

LEMMA HostWhole ==
  ASSUME Inv, Whole, Sealed, Host
  PROVE  Whole' /\ Sealed'
<1>1. CASE ReceiveError \/ RefuseAnswer \/ RefuseChallenge \/ RefuseProof \/ NoAnswer
           \/ Return \/ ReceiveProof
  <2>1. call' = None
    BY <1>1 DEF ReceiveError, ReceivedError, RefuseAnswer, RefuseChallenge, RefuseProof,
                NoAnswer, Raise, Return, ReceiveProof
  <2> QED BY <2>1, ElsewhereWhole
<1>2. CASE ReceiveMore
  <2>1. /\ call # None /\ call \in Running /\ call.at = "sent"
        /\ response # None /\ response.status = "more"
        /\ call' = [call EXCEPT !.got = @ \o response.data]
        /\ request' = [cmd |-> Command("additional_frame"), cipher |-> None]
        /\ response' = None
        /\ UNCHANGED <<gap, card_rest, answered, faults>>
    BY <1>2, UnderWay DEF ReceiveMore, Consume, cardVars, history
  <2>2. /\ call'.rx = call.rx /\ call'.ret = call.ret /\ call'.got = Received
        /\ request'.cmd.op = "additional_frame"
    BY <2>1 DEF Running, Received, Command
  <2>3. Continuing' => Halfway
    BY <2>1, <2>2 DEF Continuing, Halfway, Protected
  <2>4. ~Asking' /\ ~Answered' /\ ~Halfway'
    BY <2>1, <2>2 DEF Asking, Answered, Halfway, AsksForMore
  <2> QED BY <2>1, <2>2, <2>3, <2>4 DEF Whole, Sealed
<1>3. CASE ReturnChunk \/ ReceiveChallenge
  <2>1. call # None /\ call \in Running
    BY <1>3, UnderWay DEF ReturnChunk, AcceptAnswer, Postprocess, ReceiveChallenge, Consume
  <2>2. call'.at \in {"next", "proof"}
    BY <1>3, <2>1 DEF ReturnChunk, ReceiveChallenge, Running
  <2> QED BY <2>2, ElsewhereWhole
<1>4. CASE NextChunk
  <2> DEFINE cmd == ReadChunk(call.cmd.mode, call.cmd.part + 1)
  <2>1. cmd.op = "read_file_data"
    BY DEF ReadChunk, Command
  <2>2. Transceive(None, cmd, "PLAIN", call.rx, call.ret, call.left - 1)
    BY <1>4 DEF NextChunk
  <2>3. response' = None
    BY <1>4 DEF NextChunk, Inv, Base, Protocol, InCommand
  <2> HIDE DEF cmd
  <2> QED BY <2>1, <2>2, <2>3, SentWhole
<1> QED BY <1>1, <1>2, <1>3, <1>4 DEF Host

\* An answer in two frames has one part in each.
LEMMA ExecuteWhole ==
  ASSUME Inv, Belief, Answering, Stepping, Whole, Sealed, CardExecuteAny
  PROVE  Whole' /\ Sealed'
<1>1. PICK data \in Data(request.cmd.op) : CardExecute(request.cmd, data)
  BY DEF CardExecuteAny
<1>2. /\ request # None /\ request' = None /\ call # None
      /\ UNCHANGED <<call, faults>>
      /\ answered'.data = answered.data \o data
      /\ gap' = (gap \/ DeletesSelected(request.cmd))
  BY <1>1, UnderWay DEF CardExecuteAny, CardExecute, Take
<1>3. request.cmd = call.cmd /\ request.cmd.op # "additional_frame"
      /\ request.cmd.op # "authenticate"
  BY <1>1, <1>2, ExecutedIsOwn
<1>4. call.at = "sent" /\ ~AsksForMore
  BY <1>2, <1>3, RequestKind DEF IsProof, AsksForMore
<1>5. ~Asking' /\ ~Continuing'
  BY <1>2, NoneAssumption DEF Asking, Continuing, AsksForMore
<1>6. Answered' \/ Halfway' => Asking /\ answered.data = call.ret /\ is_authenticated
  <2>1. Answered' \/ Halfway' => Protected
    BY <1>2 DEF Answered, Halfway, Protected
  <2> QED
    BY <1>2, <1>4, <2>1 DEF Asking, Protected, Answering, ReadBefore, Inv, Base, Protocol,
                            InCommand
<1>7. Protected /\ is_authenticated /\ ~gap' =>
        card_auth # None /\ AuthAfter(request.cmd) = card_auth
          /\ AnswerMode(request.cmd) # "PLAIN"
  <2> SUFFICES ASSUME Protected, is_authenticated, ~gap'
               PROVE  /\ card_auth # None /\ AuthAfter(request.cmd) = card_auth
                      /\ AnswerMode(request.cmd) # "PLAIN"
    OBVIOUS
  <2>1. ~gap /\ ~DeletesSelected(request.cmd)
    BY <1>2
  <2>2. ~AnsweredPlain(request.cmd)
    BY <1>2, <1>3, <1>4 DEF Stepping, CallKind, Protected
  <2>3. card_auth # None
    BY <1>2, <1>4, <2>1 DEF Stepping, TogetherAsking, SoFarSoGood, Waiting
  <2>4. AuthAfter(request.cmd) = card_auth
    BY <2>1, <2>2, AnsweredWithMac
  <2>5. AnswerMode(request.cmd) # "PLAIN"
    BY <2>2 DEF AnsweredPlain, EndsSession, AnswerMode, PlainOnCard
  <2> QED BY <2>3, <2>4, <2>5
<1>8. Protected /\ is_authenticated /\ ~gap' =>
        \A last : Answer(request.cmd, data, last).cipher # None
  <2> SUFFICES ASSUME Protected, is_authenticated, ~gap', NEW last
               PROVE  Answer(request.cmd, data, last).cipher # None
    OBVIOUS
  <2>1. Answer(request.cmd, data, last).cipher =
          [key |-> card_auth.sk, chain |-> CardChainAfterRx(request.cmd, data),
           mode |-> AnswerMode(request.cmd)]
    BY <1>7 DEF Answer
  <2>2. <<"tx", request.cmd>> \in Items /\ <<"rx", data>> \in Items
    BY <1>2, UnderWay, DataTyped DEF Items, Requests
  <2>3. CardChainAfterRx(request.cmd, data) \in Seq(Items)
    BY <2>2 DEF CardChainAfterRx, CardChainAfterTx, Inv, Base, TypeOK
  <2>4. card_auth.sk \in KeyValues
    BY <1>7 DEF Inv, Base, TypeOK, Sessions, KeyValues
  <2>5. AnswerMode(request.cmd) \in Modes
    BY <1>2, UnderWay DEF AnswerMode, PlainOnCard, Modes, Requests, Commands, CommandRecords
  <2>6. Answer(request.cmd, data, last).cipher \in Ciphers
    BY <2>1, <2>3, <2>4, <2>5 DEF Ciphers
  <2> QED BY <2>6, NoneAssumption
<1>9. /\ call.ret \in Seq(Payloads) /\ call.got \in Seq(Payloads) /\ data \in Seq(Payloads)
      /\ call' = call
  BY <1>2, UnderWay, DataTyped DEF Running
<1>10. CASE Len(data) = 2
  <2>1. /\ response'.status = "more" /\ response'.data = <<data[1]>>
        /\ card_rest' = Answer(request.cmd, data, <<data[2]>>)
    BY <1>1, <1>10 DEF CardExecute
  <2>2. ~Answered'
    BY <2>1 DEF Answered
  <2>3. Received' = call.got \o <<data[1]>> /\ card_rest'.data = <<data[2]>>
    BY <1>9, <2>1 DEF Received, Answer
  <2>4. ASSUME call.got = <<>>
        PROVE  call.ret \o ((call.got \o <<data[1]>>) \o <<data[2]>>) = call.ret \o data
    <3>1. PICK p, q \in Payloads : data = <<p, q>>
      BY <1>10 DEF Data
    <3>2. call.got \o <<p>> = <<p>>
      BY <2>4
    <3>3. <<p>> \o <<q>> = <<p, q>>
      <4>1. <<p>> \in Seq(Payloads) /\ <<q>> \in Seq(Payloads) /\ <<p, q>> \in Seq(Payloads)
        OBVIOUS
      <4>2. <<p>> \o <<q>> \in Seq(Payloads) /\ Len(<<p>> \o <<q>>) = 2
        BY <4>1
      <4>3. (<<p>> \o <<q>>)[1] = p /\ (<<p>> \o <<q>>)[2] = q
        BY <4>1
      <4>4. \A i \in 1 .. 2 : (<<p>> \o <<q>>)[i] = <<p, q>>[i]
        BY <4>3
      <4> QED BY <4>1, <4>2, <4>4, SeqEqual
    <3> QED BY <3>1, <3>2, <3>3
  <2>5. Whole'
    BY <1>2, <1>5, <1>6, <1>9, <2>2, <2>3, <2>4 DEF Whole
  <2>6. Sealed'
    BY <1>2, <1>5, <1>6, <1>8, <2>1, <2>2 DEF Sealed, Asking
  <2> QED BY <2>5, <2>6
<1>11. CASE Len(data) # 2
  <2>1. response' = Answer(request.cmd, data, data)
    BY <1>1, <1>11 DEF CardExecute
  <2>2. response'.status = "ok" /\ response'.data = data
    BY <2>1 DEF Answer
  <2>3. ~Halfway'
    BY <2>2 DEF Halfway
  <2>4. call.got = <<>> => call.ret \o Received' = call.ret \o data
    BY <1>9, <2>2 DEF Received
  <2>5. Whole'
    BY <1>2, <1>5, <1>6, <1>9, <2>3, <2>4 DEF Whole
  <2>6. Sealed'
    BY <1>2, <1>5, <1>6, <1>8, <2>1, <2>3 DEF Sealed, Asking
  <2> QED BY <2>5, <2>6
<1> QED BY <1>10, <1>11

LEMMA CardWhole ==
  ASSUME Inv, Belief, Answering, Stepping, Whole, Sealed, Card \/ Link
  PROVE  Whole' /\ Sealed'
<1>1. CASE CardChallenge \/ \E rndA \in 1 .. calls : CardProve(rndA)
  <2>1. /\ request # None /\ (request.cmd.op = "authenticate" \/ IsProof(request))
        /\ UNCHANGED call
    BY <1>1 DEF CardChallenge, CardProve, Take
  <2>2. call'.at # "sent"
    BY <2>1, RequestKind
  <2> QED BY <2>2, ElsewhereWhole
<1>2. CASE CardExecuteAny
  BY <1>2, ExecuteWhole
<1>3. CASE CardContinue
  <2>1. /\ AsksForMore /\ request' = None /\ response' = card_rest /\ card_rest # None
        /\ UNCHANGED <<call, answered, gap, faults>>
    BY <1>3 DEF CardContinue, Take, AsksForMore, history
  <2>2. response'.status = "ok"
    BY <2>1 DEF Stepping, RestIsNoError
  <2>3. Answered' => Continuing
    BY <2>1 DEF Answered, Continuing, Protected
  <2>4. ~Asking' /\ ~Halfway' /\ ~Continuing'
    BY <2>1, <2>2 DEF Asking, Halfway, Continuing, AsksForMore
  <2>5. Received' = call.got \o card_rest.data
    BY <2>1 DEF Received
  <2> QED BY <2>1, <2>3, <2>4, <2>5 DEF Whole, Sealed
<1>4. CASE CardRefuse
  <2>1. request' = None /\ response'.status = "error"
    BY <1>4 DEF CardRefuse, Take
  <2> QED
    BY <2>1 DEF Whole, Sealed, Asking, Answered, Halfway, Continuing, AsksForMore
<1>5. CASE Link
  <2>1. faults' = faults + 1
    BY <1>5 DEF Link, Lose, Spoil, CardReset, Fault
  <2>2. faults \in Nat
    BY ConstantsAssumption DEF Inv, Base, TypeOK
  <2>3. faults' # 0
    BY <2>1, <2>2
  <2> QED BY <2>3 DEF Whole, Sealed
<1> QED BY <1>1, <1>2, <1>3, <1>4, <1>5 DEF Card

LEMMA StepWhole ==
  ASSUME Inv, Belief, Answering, Stepping, Whole, Sealed, [Next]_vars
  PROVE  Whole' /\ Sealed'
<1>1. CASE Rest \/ UNCHANGED vars
  BY <1>1 DEF Rest, vars, hostVars, cardVars, history, Whole, Sealed, Asking, Answered, Halfway,
              Continuing, Protected, AsksForMore, Received
<1> QED BY <1>1, CallerWhole, HostWhole, CardWhole DEF Next

\* The steps of GapHasCause.
Caused ==
  gap' /\ ~gap /\ faults' = 0 =>
    \/ response' # None /\ response'.status = "error"
    \/ card_app' # card_app
    \/ response # None /\ call.rx = "PLAIN" /\ AnswerMode(call.cmd) # "PLAIN"

\* An answer that _postprocess has before the first fault parts the two sides only if it
\* is taken PLAIN.
LEMMA PostprocessCaused ==
  ASSUME Inv, Whole, Sealed, Postprocess, faults = 0, ~gap, GapAfterPostprocess
  PROVE  response # None /\ call.rx = "PLAIN" /\ AnswerMode(call.cmd) # "PLAIN"
<1>1. /\ call # None /\ call \in Running /\ call.at = "sent"
      /\ response # None /\ response.status = "ok"
  BY UnderWay DEF Postprocess, Consume
<1>2. call.rx # "PLAIN" => Answered
  BY <1>1 DEF Answered, Protected
<1>3. call.rx # "PLAIN" => call.ret \o Received = answered.data /\ response.cipher # None
  BY <1>2 DEF Whole, Sealed
<1>4. call.rx \in {"PLAIN", "CMAC", "ENCRYPTED"}
  BY <1>1 DEF Running, Modes
<1> QED BY <1>1, <1>3, <1>4 DEF GapAfterPostprocess

LEMMA StepCaused ==
  ASSUME Inv, Whole, Sealed, [Next]_vars
  PROVE  Caused
<1> SUFFICES ASSUME gap', ~gap, faults' = 0
             PROVE  \/ response' # None /\ response'.status = "error"
                    \/ card_app' # card_app
                    \/ response # None /\ call.rx = "PLAIN" /\ AnswerMode(call.cmd) # "PLAIN"
  BY DEF Caused
<1>1. gap' # gap
  OBVIOUS
<1>2. ~(Rest \/ UNCHANGED vars)
  BY <1>1 DEF Rest, vars, history
<1>3. ~Caller
  <2>1. Caller => gap' = gap
    BY CallerStep DEF NewKey, Authenticate, SendAuthenticate, Ordinary, Invoke, history, Inv, Base
  <2> QED BY <1>1, <2>1
<1>4. ~Link
  <2>1. Link => faults' = faults + 1
    BY DEF Link, Lose, Spoil, CardReset, Fault
  <2>2. faults \in Nat
    BY ConstantsAssumption DEF Inv, Base, TypeOK
  <2> QED BY <2>1, <2>2
<1>5. CASE Host
  <2>1. RefuseAnswer \/ Return \/ ReturnChunk
    BY <1>1, <1>5 DEF Host, ReceiveError, ReceivedError, ReceiveMore, NextChunk,
                      ReceiveChallenge, RefuseChallenge, RefuseProof, ReceiveProof, NoAnswer,
                      history
  <2>2. Postprocess /\ gap' = GapAfterPostprocess /\ UNCHANGED faults
    BY <2>1 DEF RefuseAnswer, Return, ReturnChunk, AcceptAnswer, Postprocess
  <2> QED BY <2>2, PostprocessCaused
<1>6. CASE Card
  <2>1. CardExecuteAny \/ CardRefuse
    BY <1>1, <1>6 DEF Card, CardChallenge, CardProve, CardContinue, history
  <2>2. CASE CardExecuteAny
    <3>1. PICK data \in Data(request.cmd.op) : CardExecute(request.cmd, data)
      BY <2>2 DEF CardExecuteAny
    <3>2. DeletesSelected(request.cmd)
      BY <1>1, <3>1 DEF CardExecute
    <3> QED BY <3>1, <3>2 DEF CardExecute, CanExecute, DeletesSelected, AppAfter
  <2>3. CASE CardRefuse
    <3>1. response' = [status |-> "error", data |-> <<>>, cipher |-> None]
      BY <2>3 DEF CardRefuse
    <3>2. response' \in Responses
      BY <3>1 DEF Responses
    <3> QED BY <3>1, <3>2, NoneAssumption
  <2> QED BY <2>1, <2>2, <2>3
<1> QED BY <1>2, <1>3, <1>4, <1>5, <1>6 DEF Next

\* Before the first loss or damage nothing ends the agreement of the IVs but a refusal, the
\* deletion of the selected application, and a MAC on an answer that a method takes PLAIN:
\* InStep excuses no more.
THEOREM GapCorrect == Spec => GapHasCause
<1>1. Init => Whole /\ Sealed /\ Stepping
  BY InitWhole, InitStepping
<1>2. Inv /\ Belief /\ Answering /\ Whole /\ Sealed /\ Stepping /\ [Next]_vars =>
        Whole' /\ Sealed' /\ Stepping'
  BY StepWhole, StepStepping
<1>3. Inv /\ Whole /\ Sealed /\ [Next]_vars =>
        [ gap' /\ ~gap /\ faults' = 0 =>
            \/ response' # None /\ response'.status = "error"
            \/ card_app' # card_app
            \/ response # None /\ call.rx = "PLAIN" /\ AnswerMode(call.cmd) # "PLAIN" ]_vars
  BY StepCaused DEF Caused
<1> QED
  BY <1>1, <1>2, <1>3, InvCorrect, BeliefCorrect, AnsweringCorrect, PTL DEF Spec, GapHasCause

-----------------------------------------------------------------------------
(***************************************************************************)
(* Why a loss in a session cannot be overlooked: the chains of host and    *)
(* card never meet again, for every value of the constants in which every  *)
(* answer in a session has a MAC or a CRC.                                 *)
(***************************************************************************)

(* Two chains that cannot be continued to the same one                     *)

Diverged(h, c) == \E i \in 1 .. Len(h) : i <= Len(c) /\ h[i] # c[i]

\* The host's chain differs from the card's, or is ahead of it, or waits for an answer
\* that has been lost.
Apart(h, c) ==
  \/ Diverged(h, c)
  \/ Len(h) > Len(c)
  \/ Len(c) > Len(h) /\ c[Len(h) + 1][1] = "rx"

\* After a command went through the host's cipher, and after the card answered it.
ApartAsking(h, c) == Diverged(h, c) \/ Len(h) >= Len(c) + 2
ApartAnswered(h, c) == Diverged(h, c) \/ Len(h) > Len(c)

\* Chains that differ go on to differ, whatever is appended to them.
LEMMA DivergedAppend ==
  ASSUME NEW h \in Seq(Items), NEW c \in Seq(Items), NEW x \in Items, Diverged(h, c)
  PROVE  Diverged(Append(h, x), c) /\ Diverged(h, Append(c, x))
<1>1. PICK i \in 1 .. Len(h) : i <= Len(c) /\ h[i] # c[i]
  BY DEF Diverged
<1>2. /\ Len(Append(h, x)) = Len(h) + 1 /\ Append(h, x)[i] = h[i]
      /\ Len(Append(c, x)) = Len(c) + 1 /\ Append(c, x)[i] = c[i]
  BY <1>1
<1>3. i \in 1 .. Len(Append(h, x)) /\ Len(h) \in Nat /\ Len(c) \in Nat
  BY <1>1, <1>2
<1> QED BY <1>1, <1>2, <1>3 DEF Diverged

\* The next command makes no good what was lost.
LEMMA AskedApart ==
  ASSUME NEW h \in Seq(Items), NEW c \in Seq(Items), NEW x \in Items, x[1] = "tx", Apart(h, c)
  PROVE  ApartAsking(Append(h, x), c)
<1>1. Len(Append(h, x)) = Len(h) + 1 /\ Append(h, x)[Len(h) + 1] = x
      /\ Len(h) \in Nat /\ Len(c) \in Nat
  OBVIOUS
<1>2. CASE Diverged(h, c)
  BY <1>2, DivergedAppend DEF ApartAsking
<1>3. CASE Len(h) > Len(c)
  BY <1>1, <1>3 DEF ApartAsking
<1>4. CASE Len(c) > Len(h) /\ c[Len(h) + 1][1] = "rx"
  <2>1. Append(h, x)[Len(h) + 1] # c[Len(h) + 1]
    BY <1>1, <1>4
  <2>2. Len(h) + 1 \in 1 .. Len(Append(h, x)) /\ Len(h) + 1 <= Len(c)
    BY <1>1, <1>4
  <2> QED BY <2>1, <2>2 DEF ApartAsking, Diverged
<1> QED BY <1>2, <1>3, <1>4 DEF Apart

\* Nor does its answer: a chain that ends with a command is not one that ends with an answer.
LEMMA AnsweredApart ==
  ASSUME NEW h \in Seq(Items), NEW c \in Seq(Items), NEW x \in Items, NEW y \in Items,
         y[1] = "rx", Len(h) > 0, h[Len(h)][1] = "tx", ApartAsking(h, c)
  PROVE  ApartAnswered(h, Append(Append(c, x), y))
<1> DEFINE d == Append(Append(c, x), y)
<1>1. /\ Append(c, x) \in Seq(Items) /\ Len(Append(c, x)) = Len(c) + 1
      /\ d \in Seq(Items) /\ Len(d) = Len(c) + 2 /\ d[Len(c) + 2] = y
      /\ Len(h) \in Nat /\ Len(c) \in Nat
  OBVIOUS
<1>2. CASE Diverged(h, c)
  <2>1. Diverged(h, Append(c, x))
    BY <1>2, DivergedAppend
  <2> QED BY <1>1, <2>1, DivergedAppend DEF ApartAnswered
<1> HIDE DEF d
<1>3. CASE Len(h) > Len(c) + 2
  BY <1>1, <1>3 DEF ApartAnswered, d
<1>4. CASE Len(h) = Len(c) + 2
  <2>1. h[Len(h)] # d[Len(h)] /\ Len(h) \in 1 .. Len(h) /\ Len(h) <= Len(d)
    BY <1>1, <1>4
  <2> QED BY <2>1 DEF ApartAnswered, Diverged, d
<1>5. Diverged(h, c) \/ Len(h) > Len(c) + 2 \/ Len(h) = Len(c) + 2
  BY <1>1 DEF ApartAsking
<1> QED BY <1>2, <1>3, <1>4, <1>5

\* What the host takes for the answer does not bring it to the card's chain.
LEMMA ReceivedApart ==
  ASSUME NEW h \in Seq(Items), NEW c \in Seq(Items), NEW x \in Items, ApartAnswered(h, c)
  PROVE  Append(h, x) # c /\ Apart(Append(h, x), c)
<1>1. Len(Append(h, x)) = Len(h) + 1 /\ Len(h) \in Nat /\ Len(c) \in Nat
  OBVIOUS
<1>2. CASE Diverged(h, c)
  <2>1. Diverged(Append(h, x), c)
    BY <1>2, DivergedAppend
  <2>2. Append(h, x) # c
    BY <2>1 DEF Diverged
  <2> QED BY <2>1, <2>2 DEF Apart
<1>3. CASE Len(h) > Len(c)
  BY <1>1, <1>3 DEF Apart
<1> QED BY <1>2, <1>3 DEF ApartAnswered

\* An answer that is not the card's takes the host to another chain.
LEMMA OtherAnswerApart ==
  ASSUME NEW h \in Seq(Items), NEW x \in Items, NEW y \in Items, x # y
  PROVE  Apart(Append(h, x), Append(h, y))
<1>1. /\ Len(Append(h, x)) = Len(h) + 1 /\ Append(h, x)[Len(h) + 1] = x
      /\ Len(Append(h, y)) = Len(h) + 1 /\ Append(h, y)[Len(h) + 1] = y
      /\ Len(h) + 1 \in 1 .. Len(h) + 1 /\ Len(h) \in Nat
  OBVIOUS
<1> QED BY <1>1 DEF Apart, Diverged

\* A command or an answer the other side has not seen leaves the chains apart.
LEMMA LostApart ==
  ASSUME NEW h \in Seq(Items), NEW c \in Seq(Items)
  PROVE  /\ ApartAsking(h, c) => Apart(h, c)
         /\ ApartAnswered(h, c) => Apart(h, c)
         /\ \A x \in Items : h = Append(c, x) => Apart(h, c)
         /\ \A x \in Items : c = Append(h, x) /\ x[1] = "rx" => Apart(h, c)
<1>1. Len(h) \in Nat /\ Len(c) \in Nat
  OBVIOUS
<1>2. ApartAsking(h, c) => Apart(h, c)
  BY <1>1 DEF ApartAsking, Apart
<1>3. ApartAnswered(h, c) => Apart(h, c)
  BY DEF ApartAnswered, Apart
<1>4. ASSUME NEW x \in Items, h = Append(c, x)
      PROVE  Apart(h, c)
  BY <1>1, <1>4 DEF Apart
<1>5. ASSUME NEW x \in Items, c = Append(h, x), x[1] = "rx"
      PROVE  Apart(h, c)
  BY <1>1, <1>5 DEF Apart
<1> QED BY <1>2, <1>3, <1>4, <1>5

\* A chain that begins with an answer nobody can decrypt is not the card's.
LEMMA RawApart ==
  ASSUME NEW c \in Seq(Items), Len(c) > 0, c[1][1] = "tx", NEW data
  PROVE  Apart(<<<<"raw", data>>>>, c)
<1> DEFINE x == <<"raw", data>>
           h == <<x>>
<1>1. x # c[1]
  OBVIOUS
<1> HIDE DEF x
<1>2. Len(h) = 1 /\ h[1] = x /\ Len(c) \in Nat
  OBVIOUS
<1> HIDE DEF h
<1>3. Apart(h, c)
  BY <1>1, <1>2 DEF Apart, Diverged
<1> QED BY <1>3 DEF h, x

-----------------------------------------------------------------------------
(* The chains of a session                                                 *)

\* The methods that take a PLAIN answer and go on with the session.
PlainMethods == {"format_card", "delete_file", "read_file_data"}

InSession == is_authenticated /\ card_auth # None
HostChain == iv[session_key]

\* Between two commands the chains are the same and nothing was lost, or they are apart.
ChainsIdle ==
  InSession /\ (call = None \/ call.at = "next") =>
    (HostChain = card_iv /\ ~gap) \/ Apart(HostChain, card_iv)

\* While a method waits, a loss would leave the chains apart.
ChainsWaiting ==
  InSession /\ call # None /\ call.at = "sent" =>
    /\ Apart(HostChain, card_iv)
    /\ Len(HostChain) > 0 /\ Last(HostChain)[1] = "tx"

\* A command that is under way is what the card expects, or never will be.
ChainsAsking ==
  InSession /\ call # None /\ call.at = "sent" /\ request # None /\ ~AsksForMore =>
    \/ ~gap /\ HostChain = Append(card_iv, <<"tx", request.cmd>>)
    \/ ApartAsking(HostChain, card_iv)

\* Once it is answered the card is ahead by this answer, or not to be reached.
ChainsAnswered ==
  /\ InSession /\ call # None /\ call.at = "sent"
  /\ (response # None /\ response.status # "error") \/ AsksForMore
  => /\ Len(card_iv) > 0
     /\ \/ /\ ~gap
           /\ card_iv = Append(HostChain, Last(card_iv)) /\ Last(card_iv)[1] = "rx"
           /\ call.rx # "PLAIN" => answered.data = call.ret \o Last(card_iv)[2]
        \/ ApartAnswered(HostChain, card_iv)

\* What the card verifies and answers begins with a command.
CardChain == Len(card_iv) > 0 => card_iv[1][1] = "tx"

Chains ==
  ChainsIdle /\ ChainsWaiting /\ ChainsAsking /\ ChainsAnswered /\ CardChain /\ SessionBegun

LEMMA InitChains == Init => Chains
  BY DEF Init, Chains, ChainsIdle, ChainsWaiting, ChainsAsking, ChainsAnswered, CardChain,
         SessionBegun, InSession

\* The chains are lists of items.
LEMMA ChainsTyped ==
  ASSUME Inv
  PROVE  /\ card_iv \in Seq(Items)
         /\ is_authenticated => session_key \in KeyObjs /\ HostChain \in Seq(Items)
         /\ iv \in [KeyObjs -> Seq(Items)]
  BY DEF Inv, Base, TypeOK, AuthAgreement, HostChain

\* Sending a command.
LEMMA SendChains ==
  ASSUME Inv, NEW kid, NEW cmd \in Commands, NEW tx, NEW rx, NEW ret, NEW left,
         cmd.op # "additional_frame",
         Transceive(kid, cmd, tx, rx, ret, left), call' # None,
         response' = None, UNCHANGED <<hostVars, card_auth, card_iv, gap>>,
         CardChain,
         InSession => (HostChain = card_iv /\ ~gap) \/ Apart(HostChain, card_iv)
  PROVE  Chains'
<1> DEFINE x == <<"tx", cmd>>
<1>1. /\ request'.cmd = cmd /\ call'.at = "sent" /\ iv' = IvAfterPreprocess(cmd)
  BY DEF Transceive, Preprocess
<1>2. x \in Items /\ x[1] = "tx"
  BY DEF Items
<1> HIDE DEF x
<1>3. ASSUME InSession
      PROVE  /\ HostChain' = Append(HostChain, x)
             /\ Len(HostChain') > 0 /\ Last(HostChain')[1] = "tx"
             /\ \/ ~gap /\ HostChain' = Append(card_iv, x)
                \/ ApartAsking(HostChain', card_iv)
             /\ Apart(HostChain', card_iv)
             /\ HostChain' \in Seq(Items)
  <2>1. session_key \in KeyObjs /\ HostChain \in Seq(Items) /\ card_iv \in Seq(Items)
        /\ is_authenticated
    BY <1>3, ChainsTyped DEF InSession
  <2>2. HostChain' = Append(HostChain, x)
    BY <1>1, <2>1, ChainsTyped DEF IvAfterPreprocess, ChainAfterTx, HostChain, hostVars, x
  <2>3. HostChain' \in Seq(Items) /\ Len(HostChain') > 0 /\ Last(HostChain')[1] = "tx"
    <3>1. /\ Append(HostChain, x) \in Seq(Items)
          /\ Len(Append(HostChain, x)) > 0
          /\ Append(HostChain, x)[Len(Append(HostChain, x))] = x
      BY <1>2, <2>1
    <3> QED BY <1>2, <2>2, <3>1 DEF Last
  <2>4. \/ ~gap /\ HostChain' = Append(card_iv, x)
        \/ ApartAsking(HostChain', card_iv)
    BY <1>2, <1>3, <2>1, <2>2, AskedApart
  <2>5. Apart(HostChain', card_iv)
    BY <1>2, <2>1, <2>3, <2>4, LostApart
  <2> QED BY <2>2, <2>3, <2>4, <2>5
<1>4. InSession' => InSession
  BY DEF InSession, hostVars
<1>5. ChainsWaiting' /\ ChainsAsking'
  BY <1>1, <1>3, <1>4 DEF ChainsWaiting, ChainsAsking, x
<1>6. ChainsIdle' /\ ChainsAnswered' /\ CardChain' /\ SessionBegun'
  BY <1>1 DEF ChainsIdle, ChainsAnswered, CardChain, SessionBegun, AsksForMore
<1> QED BY <1>5, <1>6 DEF Chains

LEMMA CallerChains ==
  ASSUME Inv, Chains, Caller
  PROVE  Chains'
<1>1. TypeOK /\ AuthAgreement /\ <<>> \in Seq(Payloads)
  BY DEF Inv, Base
<1>2. ASSUME NEW o \in KeyObjs, NEW s \in Secrets, NewKey(o, s)
      PROVE  Chains'
  <2>1. is_authenticated => iv'[session_key] = iv[session_key]
    BY <1>1, <1>2 DEF NewKey, AuthAgreement, TypeOK
  <2>2. call' = None /\ call = None /\ UNCHANGED <<hostVars, gap, card_auth, card_iv>>
    BY <1>2 DEF NewKey, cardVars, history
  <2> QED
    BY <2>1, <2>2 DEF Chains, ChainsIdle, ChainsWaiting, ChainsAsking, ChainsAnswered, CardChain,
                      SessionBegun, InSession, HostChain, hostVars
<1>3. ASSUME NEW k \in KeyIds, NEW o \in KeyObjs, Authenticate(k, o)
      PROVE  Chains'
  <2>1. ~is_authenticated' /\ call'.at = "challenge" /\ UNCHANGED card_iv
    BY <1>3 DEF Authenticate, SendAuthenticate, Invoke, cardVars
  <2> QED
    BY <2>1 DEF Chains, ChainsIdle, ChainsWaiting, ChainsAsking, ChainsAnswered, CardChain,
                SessionBegun, InSession
<1>4. ASSUME NEW kid \in Numbers, NEW cmd \in Commands, NEW tx \in Modes,
             NEW rx \in Modes, NEW left \in Nat,
             cmd.op \in Methods \ {"authenticate"}, Ordinary(kid, cmd, tx, rx, left)
      PROVE  Chains'
  <2>1. Transceive(kid, cmd, tx, rx, <<>>, left)
    BY <1>4 DEF Ordinary
  <2>2. call' # None
    BY <1>1, <2>1, TransceiveTyped, NoneAssumption
  <2>3. /\ call = None /\ response' = None
        /\ UNCHANGED <<hostVars, card_auth, card_iv, gap>>
    BY <1>4, UnderWay DEF Ordinary, Invoke, cardVars
  <2>4. cmd.op # "additional_frame"
    BY <1>4 DEF Methods, Queries, Updates
  <2>5. CardChain /\ (InSession => (HostChain = card_iv /\ ~gap) \/ Apart(HostChain, card_iv))
    BY <2>3 DEF Chains, ChainsIdle
  <2> QED BY <2>1, <2>2, <2>3, <2>4, <2>5, SendChains
<1> QED BY <1>1, <1>2, <1>3, <1>4, CallerStep

\* An answer arrived: the chains meet, or they are apart.
LEMMA ReceivedChains ==
  ASSUME Inv, Answering, Chains, Postprocess, gap' = GapAfterPostprocess, InSession
  PROVE  (iv'[session_key] = card_iv /\ ~gap') \/ Apart(iv'[session_key], card_iv)
<1> DEFINE x == <<"rx", Received>>
<1>1. /\ call # None /\ call \in Running /\ call.at = "sent"
      /\ response # None /\ response \in Responses /\ response.status = "ok"
      /\ iv' = IvAfterPostprocess
      /\ is_authenticated /\ card_auth # None
  BY UnderWay DEF Postprocess, Consume, InSession
<1>2. session_key \in KeyObjs /\ HostChain \in Seq(Items) /\ card_iv \in Seq(Items)
      /\ iv \in [KeyObjs -> Seq(Items)]
  BY <1>1, ChainsTyped
<1>3. Received \in Seq(Payloads)
  BY <1>1 DEF Received, Running, Responses
<1>4. x \in Items
  BY <1>3 DEF Items
<1>5. /\ Len(card_iv) > 0
      /\ \/ /\ ~gap
            /\ card_iv = Append(HostChain, Last(card_iv)) /\ Last(card_iv)[1] = "rx"
            /\ call.rx # "PLAIN" => answered.data = call.ret \o Last(card_iv)[2]
         \/ ApartAnswered(HostChain, card_iv)
  BY <1>1 DEF Chains, ChainsAnswered, InSession
<1>6. Last(card_iv) \in Items
  BY <1>2, <1>5 DEF Last
<1> HIDE DEF x
<1>7. CASE call.rx = "PLAIN"
  <2>1. iv'[session_key] = HostChain
    BY <1>1, <1>7 DEF IvAfterPostprocess, HostChain
  <2> QED BY <1>1, <2>1 DEF Chains, ChainsWaiting, InSession
<1>8. CASE call.rx = "CMAC"
  <2>1. iv'[session_key] = Append(HostChain, x)
    BY <1>1, <1>2, <1>8 DEF IvAfterPostprocess, ChainAfterRx, HostChain, x
  <2>2. CASE /\ ~gap /\ card_iv = Append(HostChain, Last(card_iv)) /\ Last(card_iv) = x
             /\ answered.data = call.ret \o Last(card_iv)[2]
    <3>1. Last(card_iv)[2] = Received
      BY <2>2 DEF x
    <3>2. ~gap'
      BY <1>8, <2>2, <3>1 DEF GapAfterPostprocess
    <3> QED BY <2>1, <2>2, <3>2
  <2>3. CASE card_iv = Append(HostChain, Last(card_iv)) /\ Last(card_iv) # x
    BY <1>2, <1>4, <1>6, <2>1, <2>3, OtherAnswerApart
  <2>4. CASE ApartAnswered(HostChain, card_iv)
    BY <1>2, <1>4, <2>1, <2>4, ReceivedApart
  <2> QED BY <1>5, <1>8, <2>2, <2>3, <2>4
<1>9. CASE call.rx = "ENCRYPTED" /\ response.cipher # None
  <2>1. Carries(response.cipher)
    BY <1>1, <1>9 DEF Answering, AnswerArrives, Protected
  <2>2. iv'[session_key] = response.cipher.chain /\ ~gap'
    BY <1>1, <1>2, <1>9 DEF IvAfterPostprocess, GapAfterPostprocess
  <2> QED BY <1>9, <2>1, <2>2 DEF Carries
<1>10. CASE call.rx = "ENCRYPTED" /\ response.cipher = None
  <2>1. iv'[session_key] = <<<<"raw", Received>>>>
    BY <1>1, <1>2, <1>10 DEF IvAfterPostprocess
  <2>2. card_iv[1][1] = "tx"
    BY <1>5 DEF Chains, CardChain
  <2>3. Apart(<<<<"raw", Received>>>>, card_iv)
    BY <1>2, <1>5, <2>2, RawApart
  <2> QED BY <2>1, <2>3
<1> QED BY <1>1, <1>7, <1>8, <1>9, <1>10 DEF Running, Modes

\* A method that ends leaves the chains as they are between two commands.
LEMMA EndChains ==
  ASSUME Chains, call' = None, card_iv' = card_iv,
         InSession' => (HostChain' = card_iv /\ ~gap') \/ Apart(HostChain', card_iv)
  PROVE  Chains'
  BY DEF Chains, ChainsIdle, ChainsWaiting, ChainsAsking, ChainsAnswered, CardChain, SessionBegun

LEMMA HostChains ==
  ASSUME Inv, Answering, Chains, Host
  PROVE  Chains'
<1>1. CASE ReceiveError \/ NoAnswer
  <2>1. /\ call # None /\ call.at # "next" /\ call' = None
        /\ UNCHANGED <<hostVars, iv, card_auth, card_iv>>
    BY <1>1, UnderWay
       DEF ReceiveError, ReceivedError, NoAnswer, Consume, Raise, keyVars, cardVars, Inv, Base,
           Protocol, InCommand
  <2>2. InSession => Apart(HostChain, card_iv)
    <3>1. call.at \in CallStates
      BY <2>1, UnderWay DEF Running
    <3>2. is_authenticated => call.at = "sent"
      BY <2>1, <3>1 DEF CallStates, Inv, Base, Protocol, InHandshake
    <3> QED BY <2>1, <3>2 DEF Chains, ChainsWaiting, InSession
  <2> QED BY <2>1, <2>2, EndChains DEF InSession, HostChain, hostVars
<1>2. CASE RefuseChallenge \/ RefuseProof
  <2>1. call # None /\ call.at \in {"challenge", "proof"} /\ call' = None
        /\ UNCHANGED <<hostVars, card_iv>>
    BY <1>2, UnderWay DEF RefuseChallenge, RefuseProof, Consume, Raise, cardVars
  <2>2. ~is_authenticated'
    BY <2>1 DEF Inv, Base, Protocol, InHandshake, hostVars
  <2> QED BY <2>1, <2>2, EndChains DEF InSession
<1>3. CASE RefuseAnswer \/ Return
  <2>1. /\ Postprocess /\ call' = None /\ gap' = GapAfterPostprocess
        /\ is_authenticated' => UNCHANGED hostVars
        /\ UNCHANGED <<card_auth, card_iv>>
    BY <1>3 DEF RefuseAnswer, Return, AcceptAnswer, Postprocess, Raise, HostAfterReturn, cardVars
  <2>2. InSession' => InSession /\ HostChain' = iv'[session_key]
    BY <2>1 DEF InSession, HostChain, hostVars
  <2> QED BY <2>1, <2>2, ReceivedChains, EndChains
<1>4. CASE ReturnChunk
  <2>1. /\ Postprocess /\ gap' = GapAfterPostprocess
        /\ call # None /\ call \in Running
        /\ call' = [call EXCEPT !.at = "next", !.ret = ReadSoFar]
        /\ UNCHANGED <<hostVars, card_auth, card_iv>>
    BY <1>4, UnderWay DEF ReturnChunk, AcceptAnswer, Postprocess, Consume, cardVars
  <2>2. call'.at = "next"
    BY <2>1 DEF Running
  <2>3. InSession' => InSession /\ HostChain' = iv'[session_key]
    BY <2>1 DEF InSession, HostChain, hostVars
  <2>4. ChainsIdle'
    BY <2>1, <2>3, ReceivedChains DEF ChainsIdle
  <2> QED
    BY <2>1, <2>2, <2>4 DEF Chains, ChainsWaiting, ChainsAsking, ChainsAnswered, CardChain,
                            SessionBegun
<1>5. CASE ReceiveMore
  <2>1. /\ call # None /\ call \in Running /\ call.at = "sent"
        /\ response # None /\ response.status = "more"
        /\ call' = [call EXCEPT !.got = @ \o response.data]
        /\ request'.cmd.op = "additional_frame"
        /\ response' = None
        /\ UNCHANGED <<hostVars, iv, card_auth, card_iv, gap, answered>>
    BY <1>5, UnderWay DEF ReceiveMore, Consume, Command, keyVars, cardVars, history
  <2>2. call'.at = "sent" /\ call'.rx = call.rx /\ call'.ret = call.ret
    BY <2>1 DEF Running
  <2>3. call' # None
    <3>1. response.data \in Seq(Payloads) /\ call.got \in Seq(Payloads)
      BY <2>1, UnderWay DEF Responses, Running
    <3>2. call.got \o response.data \in Seq(Payloads)
      BY <3>1
    <3>3. call' \in Running
      BY <2>1, <3>2 DEF Running
    <3> QED BY <3>3, NoneAssumption
  <2>4. ChainsWaiting' /\ ChainsAnswered' /\ CardChain'
    BY <2>1, <2>2, <2>3
       DEF Chains, ChainsWaiting, ChainsAnswered, CardChain, InSession, HostChain, hostVars
  <2>5. ChainsIdle' /\ ChainsAsking' /\ SessionBegun'
    BY <2>1, <2>2, <2>3 DEF ChainsIdle, ChainsAsking, SessionBegun, AsksForMore
  <2> QED BY <2>4, <2>5 DEF Chains
<1>6. CASE NextChunk
  <2> DEFINE cmd == ReadChunk(call.cmd.mode, call.cmd.part + 1)
  <2>1. cmd.op = "read_file_data"
    BY DEF ReadChunk, Command
  <2>2. Transceive(None, cmd, "PLAIN", call.rx, call.ret, call.left - 1)
    BY <1>6 DEF NextChunk
  <2>3. cmd \in Commands
    <3>1. call.cmd \in CommandRecords
      BY <1>6, UnderWay DEF NextChunk, Commands
    <3>2. call.cmd.mode \in Modes /\ call.cmd.part + 1 \in Nat
      BY <3>1 DEF CommandRecords
    <3>3. "read_file_data" \in Ops \ Special
      BY DEF Ops, Methods, Queries, Special
    <3> QED BY <3>2, <3>3, CommandTyped DEF ReadChunk
  <2> HIDE DEF cmd
  <2>4. /\ call # None /\ call.at = "next"
        /\ UNCHANGED <<hostVars, card_auth, card_iv, gap>>
        /\ response' = None
    BY <1>6 DEF NextChunk, history, cardVars, Inv, Base, Protocol, InCommand
  <2>5. call' # None
    BY <1>6, NextChunkTyped, NoneAssumption DEF Inv
  <2>6. CardChain /\ (InSession => (HostChain = card_iv /\ ~gap) \/ Apart(HostChain, card_iv))
    BY <2>4 DEF Chains, ChainsIdle
  <2> QED BY <2>1, <2>2, <2>3, <2>4, <2>5, <2>6, SendChains
<1>7. CASE ReceiveChallenge
  <2>1. call # None /\ call \in Running /\ call.at = "challenge" /\ response' = None
        /\ UNCHANGED card_iv
    BY <1>7, UnderWay DEF ReceiveChallenge, Consume, cardVars
  <2>2. UNCHANGED hostVars
    BY <1>7 DEF ReceiveChallenge
  <2>3. ~is_authenticated'
    BY <2>1, <2>2 DEF Inv, Base, Protocol, InHandshake, hostVars
  <2> QED
    BY <2>1, <2>3 DEF Chains, ChainsIdle, ChainsWaiting, ChainsAsking, ChainsAnswered, CardChain,
                      SessionBegun, InSession
<1>8. CASE ReceiveProof
  <2>1. /\ call # None /\ call \in Running /\ call.at = "proof" /\ call' = None
        /\ session_key' = call.key /\ iv' = [iv EXCEPT ![call.key] = <<>>] /\ gap' = FALSE
        /\ response # None /\ response.status = "ok"
        /\ UNCHANGED <<card_auth, card_iv>>
    BY <1>8, UnderWay DEF ReceiveProof, Consume, cardVars
  <2>2. call.key \in KeyObjs /\ iv \in [KeyObjs -> Seq(Items)]
    BY <2>1 DEF Inv, Base, TypeOK, Protocol, InHandshake, Running
  <2>3. HostChain' = <<>>
    BY <2>1, <2>2 DEF HostChain
  <2>4. card_iv = <<>>
    BY <2>1 DEF Chains, SessionBegun
  <2> QED BY <2>1, <2>3, <2>4, EndChains
<1> QED BY <1>1, <1>2, <1>3, <1>4, <1>5, <1>6, <1>7, <1>8 DEF Host

\* What the card does to its chain when it answers a command under a MAC or a CRC.
LEMMA ExecutedChains ==
  ASSUME PlainMethods \subseteq MacsPlain, Inv, Answering, Chains, request # None,
         NEW data \in Data(request.cmd.op), CardExecute(request.cmd, data)
  PROVE  /\ CardChain'
         /\ InSession' /\ call.at = "sent" =>
              /\ InSession /\ HostChain' = HostChain
              /\ Len(card_iv') > 0
              /\ \/ /\ ~gap'
                    /\ card_iv' = Append(HostChain, Last(card_iv')) /\ Last(card_iv')[1] = "rx"
                    /\ call.rx # "PLAIN" => answered'.data = call.ret \o Last(card_iv')[2]
                 \/ ApartAnswered(HostChain, card_iv')
              /\ Apart(HostChain, card_iv')
<1> DEFINE x == <<"tx", request.cmd>>
           y == <<"rx", data>>
<1>1. x \in Items /\ y \in Items /\ x[1] = "tx" /\ y[1] = "rx"
  BY UnderWay, DataTyped DEF Items, Requests
<1>2. AnswerMode(request.cmd) # "PLAIN"
  <2>1. ~PlainOnCard(request.cmd)
    BY DEF PlainOnCard, PlainMethods
  <2> QED BY <2>1 DEF AnswerMode
<1>3. card_iv' = IF card_auth = None THEN card_iv ELSE Append(Append(card_iv, x), y)
  BY <1>2 DEF CardExecute, CardChainAfterRx, CardChainAfterTx
<1>4. /\ card_auth' = AuthAfter(request.cmd)
      /\ answered'.data = answered.data \o data
      /\ gap' = (gap \/ DeletesSelected(request.cmd))
      /\ UNCHANGED <<hostVars, iv>>
      /\ request.cmd.op # "additional_frame"
  BY DEF CardExecute, CanExecute, Methods, Queries, Updates, keyVars
<1> HIDE DEF x, y
<1>5. card_iv \in Seq(Items)
  BY ChainsTyped
<1>6. /\ Append(card_iv, x) \in Seq(Items)
      /\ Append(Append(card_iv, x), y) \in Seq(Items)
      /\ Len(Append(Append(card_iv, x), y)) = Len(card_iv) + 2
      /\ Len(card_iv) \in Nat
      /\ Append(Append(card_iv, x), y)[Len(card_iv) + 2] = y
      /\ Append(Append(card_iv, x), y)[1] = IF Len(card_iv) = 0 THEN x ELSE card_iv[1]
  BY <1>1, <1>5
<1>7. CardChain'
  BY <1>1, <1>3, <1>6 DEF Chains, CardChain
<1>8. ASSUME InSession', call.at = "sent"
      PROVE  /\ InSession /\ HostChain' = HostChain
             /\ Len(card_iv') > 0
             /\ \/ /\ ~gap'
                   /\ card_iv' = Append(HostChain, Last(card_iv')) /\ Last(card_iv')[1] = "rx"
                   /\ call.rx # "PLAIN" => answered'.data = call.ret \o Last(card_iv')[2]
                \/ ApartAnswered(HostChain, card_iv')
             /\ Apart(HostChain, card_iv')
  <2>1. InSession /\ HostChain' = HostChain
    BY <1>4, <1>8 DEF InSession, AuthAfter, HostChain, hostVars
  <2>2. card_iv' = Append(Append(card_iv, x), y)
    BY <1>3, <2>1 DEF InSession
  <2>3. card_iv' \in Seq(Items) /\ Len(card_iv') > 0 /\ Last(card_iv') = y
    BY <1>6, <2>2 DEF Last
  <2>4. call # None /\ ~AsksForMore /\ HostChain \in Seq(Items)
    BY <1>4, <2>1, UnderWay, ChainsTyped DEF AsksForMore, InSession
  <2>5. ASSUME ApartAsking(HostChain, card_iv)
        PROVE  ApartAnswered(HostChain, card_iv')
    <3>1. Len(HostChain) > 0 /\ HostChain[Len(HostChain)][1] = "tx"
      BY <1>8, <2>1, <2>4 DEF Chains, ChainsWaiting, Last
    <3> QED BY <1>1, <1>5, <2>2, <2>4, <2>5, <3>1, AnsweredApart
  <2>6. (~gap /\ HostChain = Append(card_iv, x)) \/ ApartAsking(HostChain, card_iv)
    BY <1>8, <2>1, <2>4 DEF Chains, ChainsAsking, x
  <2>7. \/ /\ ~gap'
           /\ card_iv' = Append(HostChain, Last(card_iv')) /\ Last(card_iv')[1] = "rx"
           /\ call.rx # "PLAIN" => answered'.data = call.ret \o Last(card_iv')[2]
        \/ ApartAnswered(HostChain, card_iv')
    <3>1. call.rx # "PLAIN" => answered'.data = call.ret \o data
      BY <1>4, <1>8, <2>4 DEF Answering, ReadBefore, Protected
    <3>2. ~gap => ~gap'
      BY <1>4, <1>8 DEF InSession, AuthAfter
    <3>3. Last(card_iv')[1] = "rx" /\ Last(card_iv')[2] = data
      BY <2>3 DEF y
    <3> QED BY <2>2, <2>3, <2>5, <2>6, <3>1, <3>2, <3>3
  <2>8. Apart(HostChain, card_iv')
    BY <1>1, <2>3, <2>4, <2>7, LostApart
  <2> QED BY <2>1, <2>3, <2>7, <2>8
<1> QED BY <1>7, <1>8

LEMMA CardChains ==
  ASSUME PlainMethods \subseteq MacsPlain, Inv, Belief, Answering, Chains, Card \/ Link
  PROVE  Chains'
<1>1. CASE CardChallenge
  <2>1. call # None /\ call.at = "challenge" /\ UNCHANGED <<call, hostVars, card_iv>>
    BY <1>1, UnderWay, RequestKind DEF CardChallenge, Take
  <2>2. ~is_authenticated'
    BY <2>1 DEF Inv, Base, Protocol, InHandshake, hostVars
  <2> QED
    BY <2>1, <2>2 DEF Chains, ChainsIdle, ChainsWaiting, ChainsAsking, ChainsAnswered, CardChain,
                      SessionBegun, InSession
<1>2. CASE \E rndA \in 1 .. calls : CardProve(rndA)
  <2>1. /\ request # None /\ IsProof(request) /\ UNCHANGED <<call, hostVars>>
        /\ card_iv' = <<>> /\ card_auth' \in Sessions
    <3>1. PICK rndA \in 1 .. calls : CardProve(rndA)
      BY <1>2
    <3>2. card_chal # None
      BY <3>1 DEF CardProve, ProofFor
    <3>3. card_auth' = [sk |-> <<rndA, card_chal.rnd>>, kid |-> card_chal.kid]
      BY <3>1 DEF CardProve
    <3>4. card_chal.rnd \in Nat /\ card_chal.kid \in KeyIds /\ rndA \in Nat
      BY <3>2 DEF Inv, Base, TypeOK, Challenges
    <3> QED BY <3>1, <3>3, <3>4 DEF CardProve, Take, Sessions, SessionKeys
  <2>2. call # None /\ call.at = "proof" /\ card_auth' # None
    BY <2>1, UnderWay, RequestKind, NoneAssumption
  <2>3. ~is_authenticated'
    BY <2>1, <2>2 DEF Inv, Base, Protocol, InHandshake, hostVars
  <2> QED
    BY <2>1, <2>2, <2>3 DEF Chains, ChainsIdle, ChainsWaiting, ChainsAsking, ChainsAnswered,
                            CardChain, SessionBegun, InSession
<1>3. CASE CardExecuteAny
  <2>1. PICK data \in Data(request.cmd.op) : CardExecute(request.cmd, data)
    BY <1>3 DEF CardExecuteAny
  <2>2. /\ request # None /\ request' = None /\ call # None
        /\ UNCHANGED <<call, hostVars, iv>>
    BY <1>3, <2>1, UnderWay DEF CardExecuteAny, CardExecute, Take, keyVars
  <2>3. call.at = "sent"
    <3>1. request.cmd.op # "authenticate" /\ request.cmd.op # "additional_frame"
      BY <2>1, <2>2, ExecutedIsOwn
    <3> QED BY <2>2, <3>1, RequestKind DEF IsProof
  <2>4. /\ CardChain'
        /\ InSession' =>
             /\ InSession /\ HostChain' = HostChain
             /\ Len(card_iv') > 0
             /\ \/ /\ ~gap'
                   /\ card_iv' = Append(HostChain, Last(card_iv')) /\ Last(card_iv')[1] = "rx"
                   /\ call.rx # "PLAIN" => answered'.data = call.ret \o Last(card_iv')[2]
                \/ ApartAnswered(HostChain, card_iv')
             /\ Apart(HostChain, card_iv')
    BY <2>1, <2>2, <2>3, ExecutedChains
  <2>5. ChainsWaiting' /\ ChainsAnswered'
    BY <2>2, <2>3, <2>4 DEF Chains, ChainsWaiting, ChainsAnswered
  <2> QED
    BY <2>2, <2>3, <2>4, <2>5 DEF Chains, ChainsIdle, ChainsAsking, SessionBegun
<1>4. CASE CardContinue
  <2>1. /\ request # None /\ AsksForMore /\ request.cipher = None /\ request' = None
        /\ UNCHANGED <<call, hostVars, iv, gap, answered, card_auth, card_iv>>
    BY <1>4 DEF CardContinue, Take, AsksForMore, keyVars, history
  <2>2. call # None /\ call.at = "sent"
    BY <2>1, UnderWay, RequestKind DEF IsProof, AsksForMore
  <2> QED
    BY <2>1, <2>2 DEF Chains, ChainsIdle, ChainsWaiting, ChainsAsking, ChainsAnswered, CardChain,
                      SessionBegun, InSession, HostChain, hostVars, AsksForMore
<1>5. CASE CardRefuse
  <2>1. /\ request # None /\ request' = None /\ response'.status = "error"
        /\ card_auth' \in {None, card_auth}
        /\ UNCHANGED <<call, hostVars, iv, card_iv>>
    BY <1>5 DEF CardRefuse, Take, keyVars
  <2>2. call # None /\ call.at # "next"
    BY <2>1, UnderWay, RequestKind
  <2> QED
    BY <2>1, <2>2 DEF Chains, ChainsIdle, ChainsWaiting, ChainsAsking, ChainsAnswered, CardChain,
                      SessionBegun, InSession, HostChain, AsksForMore, hostVars
<1>6. CASE Lose
  <2>1. /\ request # None \/ response # None
        /\ request' = None /\ response' = None
        /\ UNCHANGED <<call, hostVars, iv, card_auth, card_iv>>
    BY <1>6 DEF Lose, keyVars, cardVars
  <2>2. call # None /\ call.at # "next"
    BY <2>1, UnderWay DEF Inv, Base, Protocol, InCommand
  <2> QED
    BY <2>1, <2>2 DEF Chains, ChainsIdle, ChainsWaiting, ChainsAsking, ChainsAnswered, CardChain,
                      SessionBegun, InSession, HostChain, AsksForMore, hostVars
<1>7. CASE CardReset
  BY <1>7 DEF CardReset, Chains, ChainsIdle, ChainsWaiting, ChainsAsking, ChainsAnswered,
              CardChain, SessionBegun, InSession
<1>8. CASE Spoil
  <2>1. /\ response # None /\ response'.status = response.status /\ request = None
        /\ UNCHANGED <<call, request, hostVars, iv, gap, answered, card_auth, card_iv>>
    BY <1>8, UnderWay DEF Spoil, Responses, keyVars, cardVars, history
  <2> QED
    BY <2>1 DEF Chains, ChainsIdle, ChainsWaiting, ChainsAsking, ChainsAnswered, CardChain,
                SessionBegun, InSession, HostChain, AsksForMore, hostVars
<1> QED BY <1>1, <1>2, <1>3, <1>4, <1>5, <1>6, <1>7, <1>8 DEF Card, Link

LEMMA StepChains ==
  ASSUME PlainMethods \subseteq MacsPlain, Inv, Belief, Answering, Chains, [Next]_vars
  PROVE  Chains'
<1>1. CASE Rest \/ UNCHANGED vars
  <2>1. UNCHANGED <<is_authenticated, session_key, iv, call, request, response, card_auth,
                    card_iv, answered, gap>>
    BY <1>1 DEF Rest, vars, hostVars, keyVars, cardVars, history
  <2> QED
    BY <2>1 DEF Chains, ChainsIdle, ChainsWaiting, ChainsAsking, ChainsAnswered, CardChain,
                SessionBegun, InSession, HostChain, AsksForMore
<1> QED BY <1>1, CallerChains, HostChains, CardChains DEF Next

\* A protected answer is accepted only where the chains meet.
LEMMA AcceptedInStep ==
  ASSUME Inv, Answering, Chains, AcceptAnswer, call.rx # "PLAIN"
  PROVE  ~gap
<1> DEFINE x == <<"rx", Received>>
<1>1. Postprocess /\ Authentic
  BY DEF AcceptAnswer
<1>2. /\ call # None /\ call \in Running /\ call.at = "sent"
      /\ response # None /\ response \in Responses /\ response.status = "ok"
  BY <1>1, UnderWay DEF Postprocess, Consume
<1>3. is_authenticated
  BY <1>2 DEF Inv, Base, Protocol, InCommand
<1>4. session_key \in KeyObjs /\ HostChain \in Seq(Items) /\ card_iv \in Seq(Items)
  BY <1>3, ChainsTyped
<1>5. x \in Items
  <2>1. Received \in Seq(Payloads)
    BY <1>2 DEF Received, Running, Responses
  <2> QED BY <2>1 DEF Items
<1>6. response.cipher =
        [key |-> key_bytes[session_key], chain |-> Append(HostChain, x), mode |-> call.rx]
  BY <1>1 DEF Authentic, ChainAfterRx, HostChain
<1> HIDE DEF x
<1>7. Append(HostChain, x) \in Seq(Items)
  BY <1>4, <1>5
<1>8. response.cipher \in Ciphers
  BY <1>2, <1>4, <1>6, <1>7 DEF Ciphers, Running, Inv, Base, TypeOK
<1>9. card_auth # None /\ card_iv = Append(HostChain, x)
  <2>1. Carries(response.cipher) /\ response.cipher # None
    BY <1>2, <1>8, NoneAssumption DEF Answering, AnswerArrives, Protected
  <2>2. response.cipher.chain = Append(HostChain, x)
    BY <1>6
  <2> QED BY <2>1, <2>2 DEF Carries
<1>10. ~gap \/ ApartAnswered(HostChain, card_iv)
  BY <1>2, <1>3, <1>9 DEF Chains, ChainsAnswered, InSession
<1> QED BY <1>4, <1>5, <1>9, <1>10, ReceivedApart

LEMMA StepNotMissed ==
  ASSUME Inv, Answering, Chains, [Next]_vars,
         returned' # None, returned' # returned, returned'.rx # "PLAIN"
  PROVE  ~gap
<1>1. ~Caller
  BY CallerStep DEF NewKey, Authenticate, SendAuthenticate, Ordinary, Invoke, Inv, Base
<1>2. ~Card /\ ~Link /\ ~Rest /\ ~UNCHANGED vars
  <2>1. Card => returned' = returned
    BY DEF Card, CardChallenge, CardProve, CardExecuteAny, CardExecute, CardContinue, CardRefuse
  <2>2. Link => returned' = returned
    BY DEF Link, Lose, Spoil, CardReset
  <2>3. Rest \/ UNCHANGED vars => returned' = returned
    BY DEF Rest, vars
  <2> QED BY <2>1, <2>2, <2>3
<1>3. Host
  BY <1>1, <1>2 DEF Next
<1>4. Return /\ call.rx # "PLAIN"
  <2>1. ReceiveError \/ ReceiveMore \/ RefuseAnswer \/ ReturnChunk \/ NextChunk
          \/ ReceiveChallenge \/ RefuseChallenge \/ RefuseProof \/ NoAnswer
        => returned' = returned
    BY DEF ReceiveError, ReceivedError, ReceiveMore, RefuseAnswer, ReturnChunk, NextChunk,
           ReceiveChallenge, RefuseChallenge, RefuseProof, NoAnswer
  <2>2. ~ReceiveProof
    BY DEF ReceiveProof
  <2>3. Return
    BY <1>3, <2>1, <2>2 DEF Host
  <2> QED BY <2>3 DEF Return
<1> QED BY <1>4, AcceptedInStep DEF Return

-----------------------------------------------------------------------------
(* The theorem                                                             *)

\* After a loss no protected answer is returned until the IVs are together again: as long
\* as every answer in a session has a MAC or a CRC.
THEOREM NothingMissedCorrect ==
  ASSUME PlainMethods \subseteq MacsPlain
  PROVE  Spec => NothingMissed
<1>1. Init => Chains
  BY InitChains
<1>2. Inv /\ Belief /\ Answering /\ Chains /\ [Next]_vars => Chains'
  BY StepChains
<1>3. Inv /\ Answering /\ Chains /\ [Next]_vars =>
        [returned' # None /\ returned' # returned /\ returned'.rx # "PLAIN" => ~gap]_vars
  BY StepNotMissed
<1> QED
  BY <1>1, <1>2, <1>3, InvCorrect, BeliefCorrect, AnsweringCorrect, PTL DEF Spec, NothingMissed

=============================================================================
