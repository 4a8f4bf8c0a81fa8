---------------------------- MODULE PN532Proofs ----------------------------
(***************************************************************************)
(* What holds of PN532 for every value of its constants: for a caller that *)
(* lets the line fall silent before it transceives, the driver keeps what  *)
(* Device promises.                                                        *)
(***************************************************************************)
EXTENDS PN532, TLAPS

-----------------------------------------------------------------------------
(* Typing                                                                  *)

\* What is left of the buffer is frames.
LEMMA LeftoversTyped ==
  ASSUME buffer \in Seq(Frames), NEW rest \in Leftovers
  PROVE  rest \in Seq(Frames)
<1>1. PICK first \in {<<>>, <<Noise>>}, i \in 1 .. Len(buffer) :
        rest = first \o SubSeq(buffer, i + 1, Len(buffer))
  BY DEF Leftovers
<1>2. Noise \in Frames
  BY DEF Noise, Frames, Cmds
<1>3. <<>> \in Seq(Frames) /\ <<Noise>> \in Seq(Frames)
  BY <1>2
<1>4. SubSeq(buffer, i + 1, Len(buffer)) \in Seq(Frames)
  OBVIOUS
<1>5. CASE first = <<>>
  BY <1>1, <1>3, <1>4, <1>5
<1>6. CASE first = <<Noise>>
  BY <1>1, <1>3, <1>4, <1>6
<1> QED BY <1>5, <1>6

\* How the constructor goes on.
LEMMA GoOnTyped ==
  ASSUME TypeOK, GoOn \/ todo' = Constructor
  PROVE  todo' \in Seq(Cmds)
<1>1. Constructor \in Seq(Cmds) /\ <<>> \in Seq(Cmds)
  BY DEF Constructor, Cmds
<1>2. todo # <<>> => Tail(todo) \in Seq(Cmds)
  BY DEF TypeOK
<1> QED BY <1>1, <1>2 DEF GoOn

LEMMA InitTyped == Init => TypeOK
<1> SUFFICES ASSUME Init PROVE TypeOK
  OBVIOUS
<1>1. Constructor \in Seq(Cmds)
  BY DEF Constructor, Cmds
<1>2. <<>> \in Seq(Frames) /\ <<>> \in Seq(Commands)
  OBVIOUS
<1>3. todo \in Seq(Cmds) /\ buffer \in Seq(Frames) /\ sent \in Seq(Commands) /\ wire \in Seq(Frames)
  BY <1>1, <1>2 DEF Init
<1>4. waits \in Habits /\ frames \in 0 .. MaxFrames /\ faults \in 0 .. MaxFaults
  BY ConstantsAssumption DEF Init
<1> QED BY <1>3, <1>4 DEF Init, TypeOK

LEMMA CallerTyped ==
  ASSUME TypeOK, Caller
  PROVE  TypeOK'
<1>1. ASSUME NEW cmd \in Cmds, SendCommand(cmd)
      PROVE  /\ frames' \in 0 .. MaxFrames /\ frames + 1 \in Nat
             /\ buffer' \in Seq(Frames) /\ sent' \in Seq(Commands) /\ call' \in Calls
             /\ UNCHANGED <<todo, waits, wire, chip, listed, executed, faults>>
  <2>1. [cmd |-> cmd, n |-> frames + 1] \in Commands
    BY DEF TypeOK, Commands
  <2>2. <<>> \in Seq(Frames)
    OBVIOUS
  <2> QED
    BY <1>1, <2>1, <2>2, ConstantsAssumption
       DEF TypeOK, SendCommand, BufferBeforeWrite, Calls, chipVars
<1>2. CASE Construct
  <2>1. Head(todo) \in Cmds
    BY <1>2 DEF Construct, TypeOK
  <2> QED BY <1>1, <1>2, <2>1 DEF Construct, TypeOK
<1>3. CASE Transceive
  <2>1. "exchange" \in Cmds
    BY DEF Cmds
  <2> QED BY <1>1, <1>3, <2>1 DEF Transceive, TypeOK
<1>4. CASE WaitForCard
  BY <1>4 DEF WaitForCard, TypeOK, Calls, chipVars
<1> QED BY <1>2, <1>3, <1>4 DEF Caller

LEMMA HostTyped ==
  ASSUME TypeOK, Host
  PROVE  TypeOK'
<1>1. call # None => call \in Calls
  BY DEF TypeOK
<1>2. buffer # <<>> => Tail(buffer) \in Seq(Frames) /\ Head(buffer) \in Frames
  BY DEF TypeOK
<1>3. <<>> \in Seq(Frames) /\ buffer \in Seq(Frames)
  BY DEF TypeOK
<1>4. CASE TimeOut
  <2>1. todo' \in Seq(Cmds)
    BY <1>4, GoOnTyped DEF TimeOut, ReturnNothing, GoOnUnless
  <2> QED BY <1>4, <2>1 DEF TimeOut, ReturnNothing, TypeOK, chipVars
<1>5. CASE ReadAck
  <2>1. call' \in Calls \cup {None} /\ todo' \in Seq(Cmds)
    BY <1>1, <1>5, GoOnTyped DEF ReadAck, Reading, Calls, TypeOK
  <2> QED BY <1>2, <1>5, <2>1 DEF ReadAck, Reading, TypeOK, chipVars
<1>6. CASE NoAck
  <2>1. todo' \in Seq(Cmds)
    BY <1>6, GoOnTyped DEF NoAck, Raise, GoOnUnless
  <2>2. buffer' \in Seq(Frames)
    BY <1>3, <1>6, LeftoversTyped DEF NoAck
  <2> QED BY <1>6, <2>1, <2>2 DEF NoAck, Raise, Reading, TypeOK, chipVars
<1>7. CASE ReadAnswer
  <2>1. todo' \in Seq(Cmds)
    BY <1>7, GoOnTyped DEF ReadAnswer
  <2>2. buffer' \in Seq(Frames)
    BY <1>2, <1>3, <1>7 DEF ReadAnswer, ReadFrame, Reading
  <2>3. result' \in [kind : {"answer"}, cmd : {"exchange"}, n : Nat, ok : {TRUE}] \cup {None}
    <3>1. CASE call.fn = "exchange"
      <4>1. /\ result' = Head(buffer) /\ Head(buffer) \in Frames
            /\ Head(buffer).kind = "answer" /\ Head(buffer).cmd = "exchange" /\ Head(buffer).ok
        BY <1>2, <1>7, <3>1 DEF ReadAnswer, Valid, ReadFrame, Reading
      <4> QED BY <4>1 DEF Frames
    <3>2. CASE call.fn # "exchange"
      BY <1>7, <3>2 DEF ReadAnswer, TypeOK
    <3> QED BY <3>1, <3>2
  <2> QED
    BY <1>7, <2>1, <2>2, <2>3 DEF ReadAnswer, ReadFrame, Reading, TypeOK, chipVars
<1>8. CASE RefuseAnswer
  <2>1. todo' \in Seq(Cmds)
    BY <1>8, GoOnTyped DEF RefuseAnswer, Raise, GoOnUnless
  <2>2. buffer' \in Seq(Frames)
    BY <1>3, <1>8, LeftoversTyped DEF RefuseAnswer
  <2> QED BY <1>8, <2>1, <2>2 DEF RefuseAnswer, Raise, ReadFrame, Reading, TypeOK, chipVars
<1> QED BY <1>4, <1>5, <1>6, <1>7, <1>8 DEF Host

LEMMA OutsideTyped ==
  ASSUME TypeOK, Chip \/ Line
  PROVE  TypeOK'
<1>1. \A kind \in {"ack", "answer"}, ok \in BOOLEAN : chip # None => ToHost(kind, ok) \in Frames
  BY DEF TypeOK, ToHost, Frames, Commands
<1>2. CASE ChipReceive
  <2>1. Tail(sent) \in Seq(Commands) /\ Head(sent) \in Commands
    BY <1>2 DEF ChipReceive, TypeOK
  <2>2. ToHost("ack", TRUE)' \in Frames
    BY <1>2, <2>1 DEF ChipReceive, ToHost, Frames, Commands
  <2>3. wire' \in Seq(Frames)
    <3>1. PICK f \in Frames : wire' = Append(wire, f)
      BY <1>2, <2>2 DEF ChipReceive
    <3> QED BY <3>1 DEF TypeOK
  <2> QED BY <1>2, <2>1, <2>3 DEF ChipReceive, TypeOK, hostVars
<1>3. CASE CardExecute
  BY <1>3 DEF CardExecute, TypeOK, Commands, hostVars
<1>4. ASSUME NEW ok \in BOOLEAN, ChipAnswer(ok)
      PROVE  TypeOK'
  <2>1. wire' \in Seq(Frames)
    BY <1>1, <1>4 DEF ChipAnswer, TypeOK
  <2> QED BY <1>4, <2>1 DEF ChipAnswer, TypeOK, hostVars
<1>5. CASE Arrive
  <2>1. Head(wire) \in Frames /\ Tail(wire) \in Seq(Frames)
    BY <1>5 DEF Arrive, TypeOK
  <2>2. buffer' \in Seq(Frames)
    BY <1>5, <2>1 DEF Arrive, TypeOK
  <2> QED BY <1>5, <2>1, <2>2 DEF Arrive, TypeOK, hostVars, chipVars
<1>6. CASE LoseCommand
  <2>1. sent' \in Seq(Commands)
    BY <1>6 DEF LoseCommand, TypeOK
  <2>2. faults' \in 0 .. MaxFaults
    BY <1>6, ConstantsAssumption DEF LoseCommand, Fault, TypeOK
  <2> QED BY <1>6, <2>1, <2>2 DEF LoseCommand, TypeOK, hostVars, chipVars
<1>7. CASE SpoilFrame
  <2>1. Tail(wire) \in Seq(Frames) /\ <<Noise>> \in Seq(Frames)
    BY <1>7 DEF SpoilFrame, TypeOK, Noise, Frames, Cmds
  <2>2. <<Noise>> \o Tail(wire) \in Seq(Frames)
    BY <2>1
  <2>3. wire' \in Seq(Frames)
    BY <1>7, <2>1, <2>2 DEF SpoilFrame
  <2>4. faults' \in 0 .. MaxFaults
    BY <1>7, ConstantsAssumption DEF SpoilFrame, Fault, TypeOK
  <2> QED BY <1>7, <2>3, <2>4 DEF SpoilFrame, TypeOK, hostVars, chipVars
<1> QED BY <1>2, <1>3, <1>4, <1>5, <1>6, <1>7 DEF Chip, Line

LEMMA StepTyped ==
  ASSUME TypeOK, [Next]_vars
  PROVE  TypeOK'
<1>1. CASE Rest \/ UNCHANGED vars
  BY <1>1 DEF Rest, vars, hostVars, chipVars, TypeOK
<1> QED BY <1>1, CallerTyped, HostTyped, OutsideTyped DEF Next

\* The state of the driver, the line and the chip has its types, and the bounds hold.
THEOREM TypeCorrect == Spec => []TypeOK
  BY InitTyped, StepTyped, PTL DEF Spec

-----------------------------------------------------------------------------
(* The inductive invariant.  An acknowledgment does not say whose it is,   *)
(* and an answer only what kind of command it answers; so what matters is  *)
(* what may come when: after an acknowledgment, and nothing on its way to  *)
(* the chip, only the answer to the command just sent can still arrive.    *)

\* The numbers of exchanges, wherever they are, are in the order they were sent in; the
\* constructor makes none.
Numbers ==
  /\ todo \in Seq(Cmds \ {"exchange"})
  /\ executed <= exchange /\ exchange <= frames
  /\ \A i \in 1 .. Len(sent) : sent[i].cmd = "exchange" => sent[i].n <= exchange
  /\ (chip # None /\ chip.cmd = "exchange") => chip.n <= exchange

Exchanging == call # None /\ call.fn = "exchange"
Current == [cmd |-> "exchange", n |-> exchange]

\* If transceive accepts this frame, it answers the command it sent.
Expected(f) ==
  (f.kind = "answer" /\ f.cmd = "exchange" /\ f.ok) => (f.n = exchange /\ executed = exchange)

AllExpected(q) == \A i \in 1 .. Len(q) : Expected(q[i])
HasAck(q) == \E i \in 1 .. Len(q) : q[i].kind = "ack"
AfterAck(q) == \A i, j \in 1 .. Len(q) : (i < j /\ q[i].kind = "ack") => Expected(q[j])

\* While transceive waits for the acknowledgment: its command is the only one that can be
\* on its way, and what follows an acknowledgment is expected.
AwaitsAck ==
  /\ sent = <<>> \/ sent = <<Current>>
  /\ (HasAck(buffer) \/ HasAck(wire)) => (sent = <<>> /\ (chip = None \/ chip = Current))
  /\ AfterAck(buffer) /\ AfterAck(wire)
  /\ HasAck(buffer) => AllExpected(wire)

\* While it waits for the answer.
AwaitsAnswer ==
  /\ sent = <<>>
  /\ chip = None \/ chip = Current
  /\ AllExpected(buffer) /\ AllExpected(wire)

Fresh ==
  (waits /\ Exchanging) => IF call.at = "ack" THEN AwaitsAck ELSE AwaitsAnswer

IInv == TypeOK /\ Numbers /\ Fresh

LEMMA InitFresh == Init => IInv
<1> SUFFICES ASSUME Init PROVE IInv
  OBVIOUS
<1>1. Constructor \in Seq(Cmds \ {"exchange"})
  BY DEF Constructor, Cmds
<1>2. Numbers
  BY <1>1, ConstantsAssumption DEF Init, Numbers
<1>3. Fresh
  BY DEF Init, Fresh, Exchanging
<1> QED BY <1>2, <1>3, InitTyped DEF IInv

-----------------------------------------------------------------------------
(* Numbers                                                                 *)

LEMMA CallerNumbers ==
  ASSUME TypeOK, Numbers, Caller
  PROVE  Numbers'
<1>1. ASSUME NEW cmd \in Cmds, NEW n \in Nat, SendCommand(cmd), exchange <= n, exchange' = n,
             n <= frames + 1, cmd = "exchange" => n = frames + 1
      PROVE  Numbers'
  <2>1. sent \in Seq(Commands) /\ [cmd |-> cmd, n |-> frames + 1] \in Commands
    BY DEF TypeOK, Commands
  <2>2. sent' = Append(sent, [cmd |-> cmd, n |-> frames + 1])
    BY <1>1 DEF SendCommand
  <2>3. \A i \in 1 .. Len(sent') : sent'[i].cmd = "exchange" => sent'[i].n <= n
    <3>1. \A i \in 1 .. Len(sent) : sent[i].cmd = "exchange" => sent[i].n <= n
      <4>1. \A i \in 1 .. Len(sent) : sent[i] \in Commands
        BY <2>1
      <4>2. \A i \in 1 .. Len(sent) : sent[i].n \in Nat
        BY <4>1 DEF Commands
      <4>3. exchange \in Nat
        BY DEF TypeOK
      <4> QED BY <1>1, <4>2, <4>3 DEF Numbers
    <3>2. SUFFICES ASSUME NEW i \in 1 .. Len(sent'), sent'[i].cmd = "exchange"
                   PROVE  sent'[i].n <= n
      OBVIOUS
    <3>3. CASE i = Len(sent) + 1
      <4>1. sent'[i] = [cmd |-> cmd, n |-> frames + 1]
        BY <2>1, <2>2, <3>3
      <4> QED BY <1>1, <3>2, <4>1
    <3>4. CASE i # Len(sent) + 1
      <4>1. i \in 1 .. Len(sent) /\ sent'[i] = sent[i]
        BY <2>1, <2>2, <3>4
      <4> QED BY <3>1, <3>2, <4>1
    <3> QED BY <3>3, <3>4
  <2>4. executed' = executed /\ chip' = chip /\ todo' = todo /\ frames' = frames + 1
    BY <1>1 DEF SendCommand, chipVars
  <2>5. (chip # None /\ chip.cmd = "exchange") => chip.n <= n
    BY <1>1 DEF Numbers, TypeOK, Commands
  <2> QED BY <1>1, <2>3, <2>4, <2>5 DEF Numbers, TypeOK
<1>2. CASE Construct
  <2>1. Head(todo) \in Cmds \ {"exchange"}
    BY <1>2 DEF Construct, Numbers
  <2> QED BY <1>1, <1>2, <2>1 DEF Construct, Numbers, TypeOK
<1>3. CASE Transceive
  <2>1. "exchange" \in Cmds
    BY DEF Cmds
  <2> QED BY <1>1, <1>3, <2>1 DEF Transceive, Numbers, TypeOK
<1>4. CASE WaitForCard
  BY <1>4 DEF WaitForCard, Numbers, chipVars
<1> QED BY <1>2, <1>3, <1>4 DEF Caller

LEMMA HostNumbers ==
  ASSUME TypeOK, Numbers, Host
  PROVE  Numbers'
<1>1. Constructor \in Seq(Cmds \ {"exchange"}) /\ <<>> \in Seq(Cmds \ {"exchange"})
  BY DEF Constructor, Cmds
<1>2. todo # <<>> => Tail(todo) \in Seq(Cmds \ {"exchange"})
  BY DEF Numbers
<1>3. todo' = todo \/ GoOn \/ todo' = Constructor
  BY DEF Host, TimeOut, ReadAck, NoAck, ReadAnswer, RefuseAnswer, ReturnNothing, Raise, GoOnUnless
<1>4. todo' \in Seq(Cmds \ {"exchange"})
  BY <1>1, <1>2, <1>3 DEF GoOn, Numbers
<1>5. UNCHANGED <<exchange, executed, sent, chip, frames>>
  BY DEF Host, TimeOut, ReadAck, NoAck, ReadAnswer, RefuseAnswer, ReturnNothing, Raise,
         ReadFrame, Reading, chipVars
<1> QED BY <1>4, <1>5 DEF Numbers

LEMMA OutsideNumbers ==
  ASSUME TypeOK, Numbers, Chip \/ Line
  PROVE  Numbers'
<1>1. sent # <<>> =>
        /\ Head(sent) = sent[1] /\ 1 \in 1 .. Len(sent)
        /\ \A i \in 1 .. Len(Tail(sent)) : Tail(sent)[i] = sent[i + 1] /\ i + 1 \in 1 .. Len(sent)
  BY DEF TypeOK
<1>2. CASE ChipReceive
  <2>1. sent # <<>> /\ sent' = Tail(sent) /\ chip' = Head(sent)
    BY <1>2 DEF ChipReceive
  <2>2. UNCHANGED <<todo, exchange, executed, frames>>
    BY <1>2 DEF ChipReceive, hostVars
  <2> QED BY <1>1, <2>1, <2>2 DEF Numbers
<1>3. CASE CardExecute
  BY <1>3 DEF CardExecute, Numbers, TypeOK, hostVars
<1>4. ASSUME NEW ok \in BOOLEAN, ChipAnswer(ok)
      PROVE  Numbers'
  BY <1>4 DEF ChipAnswer, Numbers, hostVars
<1>5. CASE Arrive \/ SpoilFrame
  BY <1>5 DEF Arrive, SpoilFrame, Numbers, hostVars, chipVars
<1>6. CASE LoseCommand
  <2>1. sent # <<>> /\ sent' = Tail(sent)
    BY <1>6 DEF LoseCommand
  <2>2. UNCHANGED <<todo, exchange, executed, frames, chip>>
    BY <1>6 DEF LoseCommand, hostVars, chipVars
  <2> QED BY <1>1, <2>1, <2>2 DEF Numbers
<1> QED BY <1>2, <1>3, <1>4, <1>5, <1>6 DEF Chip, Line

-----------------------------------------------------------------------------
(* Freshness                                                               *)

\* When transceive sends, nothing of an earlier command is on the line.
LEMMA CallerFresh ==
  ASSUME TypeOK, Numbers, Fresh, Caller
  PROVE  Fresh'
<1>1. CASE Construct
  <2>1. Head(todo) # "exchange"
    BY <1>1 DEF Construct, Numbers
  <2> QED BY <1>1, <2>1 DEF Construct, SendCommand, Fresh, Exchanging
<1>2. CASE Transceive
  <2> SUFFICES ASSUME waits'
               PROVE  AwaitsAck'
    BY <1>2 DEF Transceive, SendCommand, Fresh
  <2>1. sent = <<>> /\ wire = <<>> /\ wire' = wire /\ buffer' = <<>>
    BY <1>2 DEF Transceive, SendCommand, Silent, BufferBeforeWrite
  <2>2. sent' = <<Current'>>
    BY <1>2, <2>1 DEF Transceive, SendCommand, Current
  <2> QED BY <2>1, <2>2 DEF AwaitsAck, HasAck, AfterAck, AllExpected
<1>3. CASE WaitForCard
  BY <1>3 DEF WaitForCard, Fresh, Exchanging
<1> QED BY <1>1, <1>2, <1>3 DEF Caller

\* What is left in the buffer after the acknowledgment followed it.
LEMMA HostFresh ==
  ASSUME TypeOK, Fresh, Host
  PROVE  Fresh'
<1>1. CASE TimeOut \/ NoAck \/ ReadAnswer \/ RefuseAnswer
  BY <1>1 DEF TimeOut, NoAck, ReadAnswer, RefuseAnswer, ReturnNothing, Raise, Fresh, Exchanging
<1>2. CASE ReadAck
  <2> SUFFICES ASSUME waits', Exchanging'
               PROVE  (call.fn = "exchange" => AwaitsAnswer') /\ call'.at = "answer" /\ call.fn = "exchange"
    BY DEF Fresh
  <2>1. call \in Calls /\ call.at = "ack" /\ call'.at = "answer" /\ call.fn = "exchange"
    BY <1>2 DEF ReadAck, Reading, TypeOK, Calls, Exchanging
  <2>2. AwaitsAck
    BY <1>2, <2>1 DEF ReadAck, Reading, Fresh, Exchanging
  <2>3. buffer # <<>> /\ buffer \in Seq(Frames) /\ Head(buffer).kind = "ack" /\ buffer' = Tail(buffer)
    BY <1>2 DEF ReadAck, Reading, TypeOK
  <2>4. UNCHANGED <<sent, wire, chip, executed, exchange>>
    BY <1>2 DEF ReadAck, Reading, chipVars
  <2>5. 1 \in 1 .. Len(buffer) /\ buffer[1].kind = "ack"
    BY <2>3
  <2>6. HasAck(buffer)
    BY <2>5 DEF HasAck
  <2>7. \A i \in 1 .. Len(buffer') : Expected(buffer'[i])
    <3>1. SUFFICES ASSUME NEW i \in 1 .. Len(buffer') PROVE Expected(buffer'[i])
      OBVIOUS
    <3>2. i + 1 \in 1 .. Len(buffer) /\ buffer'[i] = buffer[i + 1] /\ 1 < i + 1
      BY <2>3
    <3> QED BY <2>2, <2>5, <3>2 DEF AwaitsAck, AfterAck
  <2>8. AllExpected(wire) /\ sent = <<>> /\ (chip = None \/ chip = Current)
    BY <2>2, <2>6 DEF AwaitsAck
  <2> QED BY <2>1, <2>4, <2>7, <2>8 DEF AwaitsAnswer, AllExpected, Expected, Current
<1> QED BY <1>1, <1>2 DEF Host

\* A frame is appended to a sequence of frames.
LEMMA Appended ==
  ASSUME NEW q \in Seq(Frames), NEW f \in Frames
  PROVE  /\ AllExpected(q) /\ Expected(f) => AllExpected(Append(q, f))
         /\ AfterAck(q) /\ (HasAck(q) => Expected(f)) => AfterAck(Append(q, f))
         /\ HasAck(Append(q, f)) => HasAck(q) \/ f.kind = "ack"
<1>1. /\ Len(Append(q, f)) = Len(q) + 1 /\ Append(q, f)[Len(q) + 1] = f
      /\ \A i \in 1 .. Len(q) : Append(q, f)[i] = q[i]
  OBVIOUS
<1>2. \A i \in 1 .. Len(q) + 1 : i = Len(q) + 1 \/ i \in 1 .. Len(q)
  OBVIOUS
<1> HIDE DEF AllExpected, AfterAck, HasAck, Expected
<1>3. AllExpected(q) /\ Expected(f) => AllExpected(Append(q, f))
  BY <1>1, <1>2 DEF AllExpected
<1>4. AfterAck(q) /\ (HasAck(q) => Expected(f)) => AfterAck(Append(q, f))
  <2> SUFFICES ASSUME AfterAck(q), HasAck(q) => Expected(f),
                      NEW i \in 1 .. Len(q) + 1, NEW j \in 1 .. Len(q) + 1,
                      i < j, Append(q, f)[i].kind = "ack"
               PROVE  Expected(Append(q, f)[j])
    BY <1>1 DEF AfterAck
  <2>1. i \in 1 .. Len(q) /\ q[i].kind = "ack"
    BY <1>1, <1>2
  <2>2. CASE j = Len(q) + 1
    BY <1>1, <2>1, <2>2 DEF HasAck
  <2>3. CASE j # Len(q) + 1
    BY <1>1, <1>2, <2>1, <2>3 DEF AfterAck
  <2> QED BY <2>2, <2>3
<1>5. HasAck(Append(q, f)) => HasAck(q) \/ f.kind = "ack"
  BY <1>1, <1>2 DEF HasAck
<1> QED BY <1>3, <1>4, <1>5

\* The first frame of a sequence is taken away.
LEMMA Shortened ==
  ASSUME NEW q \in Seq(Frames), q # <<>>
  PROVE  /\ AllExpected(q) => (AllExpected(Tail(q)) /\ Expected(Head(q)))
         /\ AfterAck(q) => AfterAck(Tail(q))
         /\ (AfterAck(q) /\ Head(q).kind = "ack") => AllExpected(Tail(q))
         /\ HasAck(Tail(q)) => HasAck(q)
         /\ Head(q).kind = "ack" => HasAck(q)
<1>1. /\ Head(q) = q[1] /\ 1 \in 1 .. Len(q)
      /\ \A i \in 1 .. Len(Tail(q)) : /\ Tail(q)[i] = q[i + 1] /\ i + 1 \in 1 .. Len(q) /\ 1 < i + 1
                                      /\ \A j \in 1 .. Len(Tail(q)) : i < j => i + 1 < j + 1
  OBVIOUS
<1> HIDE DEF Expected
<1>2. AllExpected(q) => (AllExpected(Tail(q)) /\ Expected(Head(q)))
  BY <1>1 DEF AllExpected
<1>3. AfterAck(q) => AfterAck(Tail(q))
  BY <1>1 DEF AfterAck
<1>4. (AfterAck(q) /\ Head(q).kind = "ack") => AllExpected(Tail(q))
  BY <1>1 DEF AfterAck, AllExpected
<1>5. HasAck(Tail(q)) => HasAck(q)
  BY <1>1 DEF HasAck
<1>6. Head(q).kind = "ack" => HasAck(q)
  BY <1>1 DEF HasAck
<1> QED BY <1>2, <1>3, <1>4, <1>5, <1>6

\* What is expected depends on the number of the command and what the card has done.
LEMMA SameExpected ==
  ASSUME UNCHANGED <<exchange, executed>>
  PROVE  /\ \A f : Expected(f) <=> Expected(f)'
         /\ AllExpected(buffer') => AllExpected(buffer)'
         /\ AllExpected(wire') => AllExpected(wire)'
         /\ AfterAck(buffer') => AfterAck(buffer)'
         /\ AfterAck(wire') => AfterAck(wire)'
         /\ HasAck(buffer') <=> HasAck(buffer)'
         /\ HasAck(wire') <=> HasAck(wire)'
         /\ Current' = Current
BY DEF Expected, AllExpected, AfterAck, HasAck, Current

\* Transceive still runs, waiting for the same, whatever the chip and the line do.
LEMMA OutsideKeepsHost ==
  ASSUME Chip \/ Line
  PROVE  UNCHANGED <<call, exchange, waits, todo, result>>
BY DEF Chip, Line, ChipReceive, CardExecute, ChipAnswer, Arrive, LoseCommand, SpoilFrame, hostVars

\* The chip acknowledges the command just sent, and no other.
LEMMA ReceiveFresh ==
  ASSUME TypeOK, Fresh, ChipReceive
  PROVE  Fresh'
<1> SUFFICES ASSUME waits, Exchanging
             PROVE  call.at = "ack" /\ AwaitsAck'
  BY OutsideKeepsHost DEF Fresh, Chip, Exchanging
<1>1. sent # <<>> /\ UNCHANGED <<exchange, executed, buffer>>
  BY DEF ChipReceive, hostVars
<1>2. call.at = "ack" /\ AwaitsAck
  BY <1>1 DEF Fresh, AwaitsAnswer
<1>3. sent = <<Current>> /\ ~HasAck(buffer) /\ ~HasAck(wire)
  BY <1>1, <1>2 DEF AwaitsAck
<1>4. sent' = <<>> /\ chip' = Current
  BY <1>3 DEF ChipReceive
<1>5. PICK f \in Frames : wire' = Append(wire, f)
  <2>1. ToHost("ack", TRUE)' \in Frames
    BY <1>3, <1>4 DEF ToHost, Frames, Current, Cmds, TypeOK
  <2> QED BY <2>1 DEF ChipReceive
<1>6. AfterAck(wire')
  BY <1>2, <1>3, <1>5, Appended DEF AwaitsAck, TypeOK
<1>7. buffer' = buffer
  BY <1>1
<1>8. AfterAck(buffer') /\ ~HasAck(buffer')
  BY <1>2, <1>3, <1>7 DEF AwaitsAck
<1>9. Current' = Current /\ AfterAck(buffer)' /\ AfterAck(wire)' /\ ~HasAck(buffer)'
  BY <1>1, <1>6, <1>8, SameExpected
<1> QED BY <1>2, <1>4, <1>9 DEF AwaitsAck

\* The card carries the command out: no frame has said so before.
LEMMA ExecuteFresh ==
  ASSUME TypeOK, Numbers, Fresh, CardExecute
  PROVE  Fresh'
<1>1. executed # exchange
  BY DEF CardExecute, Numbers, TypeOK, Commands
<1>2. \A f : Expected(f) => Expected(f)'
  BY <1>1 DEF Expected
<1>3. UNCHANGED <<call, exchange, waits, sent, buffer, wire, chip>>
  BY DEF CardExecute, hostVars
<1>4. /\ AllExpected(buffer) => AllExpected(buffer)'
      /\ AllExpected(wire) => AllExpected(wire)'
      /\ AfterAck(buffer) => AfterAck(buffer)'
      /\ AfterAck(wire) => AfterAck(wire)'
      /\ HasAck(buffer)' <=> HasAck(buffer)
      /\ HasAck(wire)' <=> HasAck(wire)
  BY <1>2, <1>3 DEF AllExpected, AfterAck, HasAck
<1> QED BY <1>3, <1>4 DEF Fresh, Exchanging, AwaitsAck, AwaitsAnswer, Current

\* After the acknowledgment the chip answers the command just sent.
LEMMA AnswerFresh ==
  ASSUME TypeOK, Fresh, NEW ok \in BOOLEAN, ChipAnswer(ok)
  PROVE  Fresh'
<1> SUFFICES ASSUME waits, Exchanging
             PROVE  IF call.at = "ack" THEN AwaitsAck' ELSE AwaitsAnswer'
  BY OutsideKeepsHost DEF Fresh, Chip, Exchanging
<1> DEFINE f == ToHost("answer", ok)
<1>1. UNCHANGED <<call, exchange, executed, sent, buffer>> /\ chip' = None
  BY DEF ChipAnswer, hostVars
<1>2. f \in Frames /\ f.kind = "answer"
  BY DEF ChipAnswer, ToHost, Frames, Commands, TypeOK
<1>3. wire' = Append(wire, f) /\ wire \in Seq(Frames)
  BY DEF ChipAnswer, TypeOK
<1>4. chip = Current => Expected(f)
  BY DEF ChipAnswer, ToHost, Expected, Current
<1>5. chip # None
  BY DEF ChipAnswer
<1> HIDE DEF f
<1>6. CASE call.at = "ack"
  <2>1. AwaitsAck
    BY <1>6 DEF Fresh
  <2>2. HasAck(wire') => HasAck(wire)
    BY <1>2, <1>3, Appended
  <2>3. AfterAck(wire') /\ (HasAck(buffer) => AllExpected(wire'))
    BY <1>2, <1>3, <1>4, <1>5, <2>1, Appended DEF AwaitsAck
  <2>4. buffer' = buffer /\ AfterAck(buffer')
    BY <1>1, <2>1 DEF AwaitsAck
  <2> QED BY <1>1, <1>6, <2>1, <2>2, <2>3, <2>4, SameExpected DEF AwaitsAck
<1>7. CASE call.at # "ack"
  <2>1. AwaitsAnswer
    BY <1>7 DEF Fresh
  <2>2. AllExpected(wire')
    BY <1>2, <1>3, <1>4, <1>5, <2>1, Appended DEF AwaitsAnswer
  <2>3. buffer' = buffer /\ AllExpected(buffer')
    BY <1>1, <2>1 DEF AwaitsAnswer
  <2> QED BY <1>1, <1>7, <2>1, <2>2, <2>3, SameExpected DEF AwaitsAnswer
<1> QED BY <1>6, <1>7

\* The frames arrive in the order the chip sent them in.
LEMMA ArriveFresh ==
  ASSUME TypeOK, Fresh, Arrive
  PROVE  Fresh'
<1> SUFFICES ASSUME waits, Exchanging
             PROVE  IF call.at = "ack" THEN AwaitsAck' ELSE AwaitsAnswer'
  BY OutsideKeepsHost DEF Fresh, Chip, Exchanging
<1> DEFINE f == Head(wire)
<1>1. UNCHANGED <<call, exchange, executed, sent, chip>>
  BY DEF Arrive, hostVars, chipVars
<1>2. buffer' = Append(buffer, f) /\ buffer \in Seq(Frames) /\ f \in Frames
  BY DEF Arrive, TypeOK
<1>3. wire # <<>> /\ wire \in Seq(Frames) /\ wire' = Tail(wire)
  BY DEF Arrive, TypeOK
<1>4. CASE call.at = "ack"
  <2>1. AwaitsAck
    BY <1>4 DEF Fresh
  <2>2. AfterAck(wire') /\ (HasAck(wire') => HasAck(wire))
    BY <1>3, <2>1, Shortened DEF AwaitsAck
  <2>3. f.kind = "ack" => (HasAck(wire) /\ AllExpected(wire'))
    BY <1>3, <2>1, Shortened DEF AwaitsAck
  <2>4. HasAck(buffer) => (Expected(f) /\ AllExpected(wire'))
    BY <1>3, <2>1, Shortened DEF AwaitsAck
  <2>5. AfterAck(buffer') /\ (HasAck(buffer') => (HasAck(buffer) \/ f.kind = "ack"))
    BY <1>2, <2>1, <2>4, Appended DEF AwaitsAck
  <2> HIDE DEF f
  <2> QED BY <1>1, <1>4, <2>1, <2>2, <2>3, <2>4, <2>5, SameExpected DEF AwaitsAck
<1>5. CASE call.at # "ack"
  <2>1. AwaitsAnswer
    BY <1>5 DEF Fresh
  <2>2. AllExpected(wire') /\ Expected(f)
    BY <1>3, <2>1, Shortened DEF AwaitsAnswer
  <2>3. AllExpected(buffer')
    BY <1>2, <2>1, <2>2, Appended DEF AwaitsAnswer
  <2> QED BY <1>1, <1>5, <2>1, <2>2, <2>3, SameExpected DEF AwaitsAnswer
<1> QED BY <1>4, <1>5

\* A command lost leaves nothing on its way to the chip.
LEMMA LoseFresh ==
  ASSUME TypeOK, Fresh, LoseCommand
  PROVE  Fresh'
<1> SUFFICES ASSUME waits, Exchanging
             PROVE  call.at = "ack" /\ AwaitsAck'
  BY OutsideKeepsHost DEF Fresh, Line, Exchanging
<1>1. sent # <<>> /\ sent' = Tail(sent) /\ UNCHANGED <<exchange, executed, buffer, wire, chip>>
  BY DEF LoseCommand, hostVars, chipVars
<1>2. call.at = "ack" /\ AwaitsAck
  BY <1>1 DEF Fresh, AwaitsAnswer
<1>3. sent = <<Current>> /\ ~HasAck(buffer) /\ ~HasAck(wire)
  BY <1>1, <1>2 DEF AwaitsAck
<1>4. sent' = <<>>
  BY <1>1, <1>3
<1>5. buffer' = buffer /\ wire' = wire
  BY <1>1
<1>6. AfterAck(buffer') /\ AfterAck(wire') /\ ~HasAck(buffer') /\ ~HasAck(wire')
  BY <1>2, <1>3, <1>5 DEF AwaitsAck
<1> QED BY <1>1, <1>2, <1>4, <1>6, SameExpected DEF AwaitsAck

\* Noise is neither an acknowledgment nor an answer.
LEMMA SpoilFresh ==
  ASSUME TypeOK, Fresh, SpoilFrame
  PROVE  Fresh'
<1> SUFFICES ASSUME waits, Exchanging
             PROVE  IF call.at = "ack" THEN AwaitsAck' ELSE AwaitsAnswer'
  BY OutsideKeepsHost DEF Fresh, Line, Exchanging
<1>1. UNCHANGED <<call, exchange, executed, sent, buffer, chip>>
  BY DEF SpoilFrame, hostVars, chipVars
<1>2. wire # <<>> /\ wire \in Seq(Frames)
  BY DEF SpoilFrame, TypeOK
<1> DEFINE rest == Tail(wire)
<1>3. /\ AllExpected(wire) => AllExpected(rest)
      /\ AfterAck(wire) => AfterAck(rest)
      /\ HasAck(rest) => HasAck(wire)
  BY <1>2, Shortened
<1>4. Noise.kind = "noise"
  BY DEF Noise
<1>5. /\ AllExpected(rest) => AllExpected(<<Noise>> \o rest)
      /\ AfterAck(rest) => AfterAck(<<Noise>> \o rest)
      /\ HasAck(<<Noise>> \o rest) => HasAck(rest)
  <2> DEFINE q == <<Noise>> \o rest
  <2>1. rest \in Seq(Frames)
    BY <1>2
  <2>2. /\ Len(q) = Len(rest) + 1 /\ q[1] = Noise
        /\ \A i \in 1 .. Len(q) : i = 1 \/ (i - 1 \in 1 .. Len(rest) /\ q[i] = rest[i - 1])
    BY <2>1
  <2>3. Expected(Noise)
    BY <1>4 DEF Expected
  <2> HIDE DEF q, rest
  <2>4. AllExpected(rest) => AllExpected(q)
    BY <2>2, <2>3 DEF AllExpected
  <2>5. AfterAck(rest) => AfterAck(q)
    <3> SUFFICES ASSUME AfterAck(rest), NEW i \in 1 .. Len(q), NEW j \in 1 .. Len(q),
                        i < j, q[i].kind = "ack"
                 PROVE  Expected(q[j])
      BY DEF AfterAck
    <3>1. i # 1 /\ j # 1 /\ i - 1 < j - 1
      BY <1>4, <2>2
    <3> QED BY <2>2, <3>1 DEF AfterAck
  <2>6. HasAck(q) => HasAck(rest)
    BY <1>4, <2>2 DEF HasAck
  <2> QED BY <2>4, <2>5, <2>6 DEF q
<1>6. wire' = rest \/ wire' = <<Noise>> \o rest
  BY DEF SpoilFrame
<1> HIDE DEF rest
<1>7. /\ AllExpected(wire) => AllExpected(wire')
      /\ AfterAck(wire) => AfterAck(wire')
      /\ HasAck(wire') => HasAck(wire)
  BY <1>3, <1>5, <1>6
<1>8. buffer' = buffer
  BY <1>1
<1>9. CASE call.at = "ack"
  <2>1. AwaitsAck
    BY <1>9 DEF Fresh
  <2>2. AfterAck(buffer') /\ (HasAck(buffer') <=> HasAck(buffer))
    BY <1>8, <2>1 DEF AwaitsAck
  <2> QED BY <1>1, <1>7, <1>9, <2>1, <2>2, SameExpected DEF AwaitsAck
<1>10. CASE call.at # "ack"
  <2>1. AwaitsAnswer
    BY <1>10 DEF Fresh
  <2>2. AllExpected(buffer')
    BY <1>8, <2>1 DEF AwaitsAnswer
  <2> QED BY <1>1, <1>7, <1>10, <2>1, <2>2, SameExpected DEF AwaitsAnswer
<1> QED BY <1>9, <1>10

LEMMA StepFresh ==
  ASSUME IInv, [Next]_vars
  PROVE  IInv'
<1>1. TypeOK'
  BY StepTyped DEF IInv
<1>2. CASE Rest \/ UNCHANGED vars
  <2>1. UNCHANGED vars
    BY <1>2 DEF Rest
  <2>2. Numbers' /\ Fresh'
    BY <2>1 DEF IInv, vars, hostVars, chipVars, Numbers, Fresh, Exchanging, AwaitsAck, AwaitsAnswer,
                Current, AllExpected, AfterAck, HasAck, Expected
  <2> QED BY <1>1, <2>2 DEF IInv
<1>3. CASE Caller
  BY <1>1, <1>3, CallerNumbers, CallerFresh DEF IInv
<1>4. CASE Host
  BY <1>1, <1>4, HostNumbers, HostFresh DEF IInv
<1>5. CASE Chip \/ Line
  <2>1. Fresh'
    BY <1>5, ReceiveFresh, ExecuteFresh, AnswerFresh, ArriveFresh, LoseFresh, SpoilFresh
       DEF IInv, Chip, Line
  <2> QED BY <1>1, <1>5, <2>1, OutsideNumbers DEF IInv
<1> QED BY <1>2, <1>3, <1>4, <1>5 DEF Next

\* While transceive waits for its answer, only that answer can still arrive.
THEOREM FreshCorrect == Spec => []IInv
  BY InitFresh, StepFresh, PTL DEF Spec

-----------------------------------------------------------------------------
(* The driver implements Device.                                           *)

LEMMA CallerKeeps ==
  ASSUME IInv, Caller
  PROVE  [Contract!Next]_(Contract!vars)
<1>1. CASE Construct
  <2>1. Head(todo) # "exchange"
    BY <1>1 DEF Construct, IInv, Numbers
  <2> QED BY <1>1, <2>1 DEF Construct, SendCommand, chipVars, Contract!vars
<1>2. CASE Transceive
  <2>1. ~Exchanging /\ Exchanging'
    <3>1. call = None /\ call' = [fn |-> "exchange", at |-> "ack"] /\ call' \in Calls
      BY <1>2 DEF Transceive, SendCommand, Calls, Cmds
    <3> QED BY <3>1, NoneAssumption DEF Exchanging
  <2>2. exchange' \in Nat /\ exchange' > exchange
    BY <1>2 DEF Transceive, IInv, TypeOK, Numbers
  <2>3. result' = None /\ executed' = executed
    BY <1>2 DEF Transceive, SendCommand, chipVars
  <2>4. Contract!Send
    BY <2>1, <2>2, <2>3 DEF Contract!Send, Exchanging
  <2> QED BY <2>4 DEF Contract!Next
<1>3. CASE WaitForCard
  BY <1>3 DEF WaitForCard, chipVars, Contract!vars
<1> QED BY <1>1, <1>2, <1>3 DEF Caller

LEMMA HostKeeps ==
  ASSUME IInv, waits, Host
  PROVE  [Contract!Next]_(Contract!vars)
<1>1. executed' = executed /\ exchange' = exchange
  BY DEF Host, TimeOut, ReadAck, NoAck, ReadAnswer, RefuseAnswer, ReturnNothing, Raise,
         ReadFrame, Reading, chipVars
<1>2. CASE TimeOut \/ NoAck \/ RefuseAnswer
  <2>1. call' = None /\ result' = result
    BY <1>2 DEF TimeOut, NoAck, RefuseAnswer, ReturnNothing, Raise
  <2> QED BY <1>1, <2>1 DEF Contract!Next, Contract!Fail, Contract!vars
<1>3. CASE ReadAck
  <2>1. result' = result /\ call # None /\ call \in Calls
    BY <1>3 DEF ReadAck, Reading, IInv, TypeOK
  <2>2. Exchanging' <=> Exchanging
    <3>1. CASE call.fn = "list"
      BY <1>3, <3>1 DEF ReadAck, Exchanging
    <3>2. CASE call.fn # "list"
      <4>1. call' = [call EXCEPT !.at = "answer"]
        BY <1>3, <3>2 DEF ReadAck
      <4>2. call' \in Calls /\ call'.fn = call.fn
        BY <2>1, <4>1 DEF Calls
      <4> QED BY <2>1, <4>2, NoneAssumption DEF Exchanging
    <3> QED BY <3>1, <3>2
  <2> QED BY <1>1, <2>1, <2>2 DEF Contract!vars, Exchanging
<1>4. CASE ReadAnswer
  <2>1. call' = None /\ call # None
    BY <1>4 DEF ReadAnswer, ReadFrame, Reading
  <2>2. CASE call.fn = "exchange"
    <3>1. /\ result' = Head(buffer) /\ buffer # <<>> /\ buffer \in Seq(Frames) /\ call.at = "answer"
          /\ Head(buffer).kind = "answer" /\ Head(buffer).cmd = "exchange" /\ Head(buffer).ok
      BY <1>4, <2>2 DEF ReadAnswer, Valid, ReadFrame, Reading, IInv, TypeOK
    <3>2. AllExpected(buffer)
      BY <2>1, <2>2, <3>1 DEF IInv, Fresh, Exchanging, AwaitsAnswer
    <3>3. Expected(Head(buffer))
      BY <3>1, <3>2, Shortened
    <3>4. executed = exchange /\ result'.n = exchange /\ result' # None
      <4>1. Head(buffer) \in Frames
        BY <3>1
      <4> QED BY <3>1, <3>3, <4>1, NoneAssumption DEF Expected
    <3>5. Contract!Answer
      BY <1>1, <2>1, <2>2, <3>4 DEF Contract!Answer
    <3> QED BY <3>5 DEF Contract!Next
  <2>3. CASE call.fn # "exchange"
    <3>1. result' = result
      BY <1>4, <2>3 DEF ReadAnswer
    <3> QED BY <1>1, <2>1, <2>3, <3>1 DEF Contract!vars
  <2> QED BY <2>2, <2>3
<1> QED BY <1>2, <1>3, <1>4 DEF Host

LEMMA OutsideKeeps ==
  ASSUME IInv, Chip \/ Line
  PROVE  [Contract!Next]_(Contract!vars)
<1>1. UNCHANGED <<call, exchange, result>>
  BY OutsideKeepsHost
<1>2. CASE CardExecute
  <2>1. executed' = chip.n /\ executed < chip.n /\ chip.n <= exchange /\ chip \in Commands
    BY <1>2 DEF CardExecute, IInv, TypeOK, Numbers
  <2>2. executed' \in executed + 1 .. exchange
    BY <2>1 DEF Commands, IInv, TypeOK
  <2> QED BY <1>1, <2>2 DEF Contract!Next, Contract!Execute
<1>3. CASE ~CardExecute
  <2>1. executed' = executed
    BY <1>3 DEF Chip, Line, ChipReceive, ChipAnswer, Arrive, LoseCommand, SpoilFrame, chipVars
  <2> QED BY <1>1, <2>1 DEF Contract!vars
<1> QED BY <1>2, <1>3

LEMMA StepKeeps ==
  ASSUME IInv, waits, [Next]_vars
  PROVE  [Contract!Next]_(Contract!vars)
<1>1. CASE Rest \/ UNCHANGED vars
  BY <1>1 DEF Rest, vars, hostVars, chipVars, Contract!vars
<1> QED BY <1>1, CallerKeeps, HostKeeps, OutsideKeeps DEF Next

\* For a caller that lets the line fall silent first, the driver keeps what Device
\* promises: transceive returns the answer to its own command, which the card carried out
\* once, or nothing; whatever is lost, damaged or late, and however many commands are sent.
THEOREM ContractKept == Spec => KeepsContract
<1>1. Init => Contract!Init
  BY DEF Init, Contract!Init
<1>2. IInv /\ [Next]_vars => (waits => [Contract!Next]_(Contract!vars))
  BY StepKeeps
<1> QED BY <1>1, <1>2, FreshCorrect, PTL DEF Spec, KeepsContract
=============================================================================
