----------------------------- MODULE CanDemoProofs -----------------------------
(***************************************************************************)
(* Proofs about CanDemo, for any number of requests, any tester and any    *)
(* timing of the bus: no request is handled twice, and the responses are   *)
(* those of Responder.                                                     *)
(***************************************************************************)
EXTENDS CanDemo, TLAPS

LEMMA FieldsLemma ==
  /\ Len(TxFields) = 6
  /\ \A i \in 1 .. 6 : TxFields[i] = "CODE" <=> i = 6
BY DEF TxFields

LEMMA FrameParts ==
  ASSUME NEW f \in Frames \union {Empty}
  PROVE  /\ f.ok \in BOOLEAN /\ f.n \in 0 .. MaxRequests
         /\ f = [len |-> f.len, ok |-> f.ok, n |-> f.n]
<1>1. CASE f \in Frames
  BY <1>1 DEF Frames
<1>2. CASE f = Empty
  BY <1>2, BoundAssumption DEF Empty
<1> QED
  BY <1>1, <1>2

LEMMA CInvInit == Init => CInv
<1> SUFFICES ASSUME Init PROVE CInv
  OBVIOUS
<1> USE BoundAssumption
<1>1. TypeOK
  <2>1. MainType
    BY FieldsLemma DEF Init, MainType
  <2>2. TransmitterType
    BY DEF Init, TransmitterType, Codes
  <2>3. ReceiverType
    BY DEF Init, ReceiverType
  <2>4. BusType
    <3>1. asked \in Seq(BOOLEAN) /\ Len(asked) = 0
      BY DEF Init
    <3>2. bus = "idle" /\ wire = Empty /\ kind \in Buses /\ verdict \in BOOLEAN
      BY DEF Init
    <3>3. waiting = 0 /\ handled = 0 /\ answered = 0
      BY DEF Init
    <3> QED
      BY <3>1, <3>2, <3>3 DEF BusType
  <2> QED
    BY <2>1, <2>2, <2>3, <2>4 DEF TypeOK
<1>2. RxInv
  BY DEF Init, RxInv, Reading, Asked, Fresh, Empty
<1>3. TxInv
  BY DEF Init, TxInv, Empty
<1> QED
  BY <1>1, <1>2, <1>3 DEF CInv

LEMMA CInvStep == CInv /\ [Next]_vars => CInv'
<1> SUFFICES ASSUME CInv, [Next]_vars PROVE CInv'
  OBVIOUS
<1> USE BoundAssumption, FieldsLemma DEF CInv
<1>1. ASSUME NEW correct \in BOOLEAN, TesterSends(correct) PROVE CInv'
  <2>1. TypeOK'
    <3>1. MainType'
      BY <1>1 DEF TypeOK, MainType, TransmitterType, ReceiverType, BusType, TesterSends, Frames, Empty, main, transmitter, receiver
    <3>2. TransmitterType'
      BY <1>1 DEF TypeOK, MainType, TransmitterType, ReceiverType, BusType, TesterSends, Frames, Empty, main, transmitter, receiver
    <3>3. ReceiverType'
      BY <1>1 DEF TypeOK, MainType, TransmitterType, ReceiverType, BusType, TesterSends, Frames, Empty, main, transmitter, receiver
    <3>4. BusType'
      BY <1>1 DEF TypeOK, MainType, TransmitterType, ReceiverType, BusType, TesterSends, Frames, Empty, main, transmitter, receiver
    <3> QED
      BY <3>1, <3>2, <3>3, <3>4 DEF TypeOK
  <2>2. RxInv'
    BY <1>1 DEF TesterSends, TypeOK, MainType, TransmitterType, ReceiverType, BusType, Frames, Empty, main, transmitter, receiver, RxInv, Asked, Fresh
  <2>3. TxInv'
    BY <1>1 DEF TesterSends, TypeOK, MainType, TransmitterType, ReceiverType, BusType, Frames, Empty, main, transmitter, receiver, TxInv, Genuine
  <2> QED
    BY <2>1, <2>2, <2>3
<1>2. CASE DeviceSends
  <2>1. TypeOK'
    <3>1. MainType'
      BY <1>2 DEF TypeOK, MainType, TransmitterType, ReceiverType, BusType, DeviceSends, Frames, Empty, main, tester, receiver
    <3>2. TransmitterType'
      BY <1>2 DEF TypeOK, MainType, TransmitterType, ReceiverType, BusType, DeviceSends, Frames, Empty, main, tester, receiver
    <3>3. ReceiverType'
      BY <1>2 DEF TypeOK, MainType, TransmitterType, ReceiverType, BusType, DeviceSends, Frames, Empty, main, tester, receiver
    <3>4. BusType'
      BY <1>2 DEF TypeOK, MainType, TransmitterType, ReceiverType, BusType, DeviceSends, Frames, Empty, main, tester, receiver
    <3> QED
      BY <3>1, <3>2, <3>3, <3>4 DEF TypeOK
  <2>2. RxInv'
    BY <1>2 DEF DeviceSends, TypeOK, MainType, TransmitterType, ReceiverType, BusType, Frames, Empty, main, tester, receiver, RxInv, Asked, Fresh
  <2>3. TxInv'
    BY <1>2 DEF DeviceSends, TypeOK, MainType, TransmitterType, ReceiverType, BusType, Frames, Empty, main, tester, receiver, TxInv, Genuine
  <2> QED
    BY <2>1, <2>2, <2>3
<1>3. CASE FrameEnds
  <2>1. TypeOK'
    <3>1. MainType'
      BY <1>3 DEF TypeOK, MainType, TransmitterType, ReceiverType, BusType, FrameEnds, Receive, Frames, Empty, main, Codes
    <3>2. TransmitterType'
      BY <1>3 DEF TypeOK, MainType, TransmitterType, ReceiverType, BusType, FrameEnds, Receive, Frames, Empty, main, Codes
    <3>3. ReceiverType'
      BY <1>3 DEF TypeOK, MainType, TransmitterType, ReceiverType, BusType, FrameEnds, Receive, Frames, Empty, main, Codes
    <3>4. BusType'
      <4>1. bus' = "idle" /\ wire' = Empty /\ UNCHANGED <<kind, asked, handled>>
        BY <1>3 DEF FrameEnds
      <4>2. answered' \in 0 .. MaxRequests /\ verdict' \in BOOLEAN
        <5>1. wire.n \in 0 .. MaxRequests /\ wire.ok \in BOOLEAN
          BY FrameParts DEF TypeOK, BusType
        <5> QED
          BY <1>3, <5>1 DEF FrameEnds, TypeOK, BusType
      <4>3. waiting' \in 0 .. MaxRequests
        BY <1>3 DEF FrameEnds, TypeOK, BusType
      <4> QED
        BY <4>1, <4>2, <4>3 DEF TypeOK, BusType
    <3> QED
      BY <3>1, <3>2, <3>3, <3>4 DEF TypeOK
  <2>2. RxInv'
    BY <1>3 DEF FrameEnds, Receive, TypeOK, MainType, TransmitterType, ReceiverType, BusType, Frames, Empty, main, RxInv, TxInv, Genuine, Asked, Fresh
  <2>3. TxInv'
    BY <1>3 DEF FrameEnds, Receive, TypeOK, MainType, TransmitterType, ReceiverType, BusType, Frames, Empty, main, TxInv, Genuine
  <2> QED
    BY <2>1, <2>2, <2>3
<1>4. CASE Poll \/ NoCharacter \/ StartSerial \/ EndSerial
  <2> USE DEF Poll, NoCharacter, StartSerial, EndSerial, transmitter, receiver, tester
  <2>1. TypeOK'
    <3>1. MainType'
      BY <1>4 DEF TypeOK, MainType
    <3>2. TransmitterType'
      BY <1>4 DEF TypeOK, TransmitterType
    <3>3. ReceiverType'
      BY <1>4 DEF TypeOK, ReceiverType
    <3>4. BusType'
      BY <1>4 DEF TypeOK, BusType
    <3> QED
      BY <3>1, <3>2, <3>3, <3>4 DEF TypeOK
  <2>2. RxInv'
    BY <1>4 DEF TypeOK, MainType, TransmitterType, ReceiverType, BusType, RxInv, Reading, Asked, Fresh
  <2>3. TxInv'
    BY <1>4 DEF TypeOK, MainType, TransmitterType, ReceiverType, BusType, TxInv, Genuine
  <2> QED
    BY <2>1, <2>2, <2>3
<1>5. CASE ReadCode \/ ReadLength
  <2> USE DEF ReadCode, ReadLength, transmitter, receiver, tester
  <2>1. TypeOK'
    <3>1. MainType'
      <4>1. CASE ReadCode
        BY <4>1 DEF TypeOK, MainType, Reading
      <4>2. CASE ReadLength
        <5>1. mb4 \in Frames /\ rx' = [rx EXCEPT !.len = mb4.len]
          BY <4>2 DEF TypeOK, ReceiverType, RxInv, Reading
        <5>2. rx' \in Frames
          <6>1. rx.ok \in BOOLEAN /\ rx.n \in 0 .. MaxRequests
                /\ rx = [len |-> rx.len, ok |-> rx.ok, n |-> rx.n]
            BY FrameParts DEF TypeOK, MainType
          <6>2. rx' = [len |-> mb4.len, ok |-> rx.ok, n |-> rx.n]
            BY <5>1, <6>1
          <6>3. mb4.len \in {2, 4}
            BY <5>1 DEF Frames
          <6> QED
            BY <6>1, <6>2, <6>3 DEF Frames
        <5> QED
          BY <4>2, <5>2 DEF TypeOK, MainType, Reading
      <4> QED
        BY <1>5, <4>1, <4>2
    <3>2. TransmitterType'
      BY <1>5 DEF TypeOK, MainType, TransmitterType, ReceiverType, BusType, RxInv, Reading, Frames, Empty
    <3>3. ReceiverType'
      BY <1>5 DEF TypeOK, MainType, TransmitterType, ReceiverType, BusType, RxInv, Reading, Frames, Empty
    <3>4. BusType'
      BY <1>5 DEF TypeOK, MainType, TransmitterType, ReceiverType, BusType, RxInv, Reading, Frames, Empty
    <3> QED
      BY <3>1, <3>2, <3>3, <3>4 DEF TypeOK
  <2>2. RxInv'
    BY <1>5 DEF TypeOK, MainType, TransmitterType, ReceiverType, BusType, RxInv, Reading, Asked, Fresh, Frames, Empty
  <2>3. TxInv'
    BY <1>5 DEF TypeOK, MainType, TransmitterType, ReceiverType, BusType, TxInv, Genuine
  <2> QED
    BY <2>1, <2>2, <2>3
<1>6. CASE ReadData
  <2> USE DEF ReadData, transmitter, receiver, tester
  <2>1. TypeOK'
    <3>1. MainType'
      BY <1>6 DEF TypeOK, MainType, TransmitterType, ReceiverType, BusType, RxInv, Reading, Frames, Empty
    <3>2. TransmitterType'
      BY <1>6 DEF TypeOK, MainType, TransmitterType, ReceiverType, BusType, RxInv, Reading, Frames, Empty
    <3>3. ReceiverType'
      BY <1>6 DEF TypeOK, MainType, TransmitterType, ReceiverType, BusType, RxInv, Reading, Frames, Empty
    <3>4. BusType'
      BY <1>6 DEF TypeOK, MainType, TransmitterType, ReceiverType, BusType, RxInv, Reading, Frames, Empty
    <3> QED
      BY <3>1, <3>2, <3>3, <3>4 DEF TypeOK
  <2>2. RxInv'
    BY <1>6 DEF TypeOK, MainType, TransmitterType, ReceiverType, BusType, RxInv, Reading, Asked, Fresh, Frames, Empty
  <2>3. TxInv'
    BY <1>6 DEF TypeOK, MainType, TransmitterType, ReceiverType, BusType, RxInv, Reading, Fresh, Frames, Empty, TxInv, Genuine
  <2> QED
    BY <2>1, <2>2, <2>3
<1>7. CASE ReadTimer \/ ClearFlag
  <2> USE DEF ReadTimer, ClearFlag, transmitter, tester
  <2>1. TypeOK'
    <3>1. MainType'
      BY <1>7 DEF TypeOK, MainType
    <3>2. TransmitterType'
      BY <1>7 DEF TypeOK, TransmitterType
    <3>3. ReceiverType'
      BY <1>7 DEF TypeOK, ReceiverType
    <3>4. BusType'
      BY <1>7 DEF TypeOK, BusType
    <3> QED
      BY <3>1, <3>2, <3>3, <3>4 DEF TypeOK
  <2>2. RxInv'
    BY <1>7 DEF TypeOK, MainType, TransmitterType, ReceiverType, BusType, RxInv, Reading, Asked, Fresh, Frames, Empty
  <2>3. TxInv'
    BY <1>7 DEF TypeOK, MainType, TransmitterType, ReceiverType, BusType, TxInv, Genuine
  <2> QED
    BY <2>1, <2>2, <2>3
<1>8. CASE CheckPassword
  <2> USE DEF CheckPassword, transmitter, receiver, tester
  <2>1. TypeOK'
    <3>1. MainType'
      BY <1>8 DEF TypeOK, MainType, TransmitterType, ReceiverType, BusType, Frames, Empty
    <3>2. TransmitterType'
      BY <1>8 DEF TypeOK, MainType, TransmitterType, ReceiverType, BusType, Frames, Empty
    <3>3. ReceiverType'
      BY <1>8 DEF TypeOK, MainType, TransmitterType, ReceiverType, BusType, Frames, Empty
    <3>4. BusType'
      BY <1>8 DEF TypeOK, MainType, TransmitterType, ReceiverType, BusType, Frames, Empty
    <3> QED
      BY <3>1, <3>2, <3>3, <3>4 DEF TypeOK
  <2>2. RxInv'
    BY <1>8 DEF TypeOK, MainType, TransmitterType, ReceiverType, BusType, RxInv, Reading, Asked, Fresh
  <2>3. TxInv'
    BY <1>8 DEF TypeOK, MainType, TransmitterType, ReceiverType, BusType, RxInv, Asked, Frames, Empty, TxInv, Genuine, Data
  <2> QED
    BY <2>1, <2>2, <2>3
<1>9. CASE TxLoad \/ TxStore \/ TxData
  <2> USE DEF TxLoad, TxStore, TxData, TxDone, receiver, transmitter, tester
  <2>1. TypeOK'
    <3>1. MainType'
      BY <1>9 DEF TypeOK, MainType, TransmitterType, ReceiverType, BusType, Codes
    <3>2. TransmitterType'
      BY <1>9 DEF TypeOK, MainType, TransmitterType, ReceiverType, BusType, Codes
    <3>3. ReceiverType'
      BY <1>9 DEF TypeOK, MainType, TransmitterType, ReceiverType, BusType, Codes
    <3>4. BusType'
      BY <1>9 DEF TypeOK, MainType, TransmitterType, ReceiverType, BusType, Codes
    <3> QED
      BY <3>1, <3>2, <3>3, <3>4 DEF TypeOK
  <2>2. RxInv'
    BY <1>9 DEF TypeOK, MainType, TransmitterType, ReceiverType, BusType, RxInv, Reading, Asked, Fresh
  <2>3. TxInv'
    BY <1>9 DEF TypeOK, MainType, TransmitterType, ReceiverType, BusType, Frames, Empty, TxInv, Genuine, Data
  <2> QED
    BY <2>1, <2>2, <2>3
<1>10. CASE UNCHANGED vars
  <2> USE DEF vars, main, transmitter, receiver, tester
  <2>1. TypeOK' /\ RxInv'
    BY <1>10 DEF TypeOK, MainType, TransmitterType, ReceiverType, BusType, RxInv, Asked, Fresh
  <2>2. TxInv'
    BY <1>10 DEF TxInv, Genuine
  <2> QED
    BY <2>1, <2>2
<1> QED
  BY <1>1, <1>2, <1>3, <1>4, <1>5, <1>6, <1>7, <1>8, <1>9, <1>10 DEF Next, Loop

(* MB 4 is read consistently, its requests once and in order, and MB 0     *)
(* holds verdicts on them in order.                                        *)
THEOREM CanInvariance == Spec => []CInv
BY CInvInit, CInvStep, PTL DEF Spec

(* The variables of the model keep their types.                            *)
THEOREM CanTypeCorrect == Spec => []TypeOK
<1>1. CInv => TypeOK
  BY DEF CInv
<1> QED
  BY <1>1, CanInvariance, PTL

(* No request is handled twice, and none after a later one.                *)
THEOREM HandledOnceHolds == Spec => HandledOnce
<1>1. CInv /\ [Next]_vars =>
        [(pc = "read_data" /\ pc' = "read_timer" /\ rx'.len = 4) => rx'.n > handled]_vars
  <2> SUFFICES ASSUME CInv, [Next]_vars, pc = "read_data", pc' = "read_timer", rx'.len = 4
               PROVE  rx'.n > handled
    OBVIOUS
  <2>1. ReadData
    BY DEF Next, Loop, TesterSends, DeviceSends, FrameEnds, StartSerial, EndSerial, Poll,
           NoCharacter, ReadCode, ReadLength, ReadTimer, ClearFlag, CheckPassword, TxLoad,
           TxStore, TxData, vars, main
  <2>2. iflag /\ Fresh(mb4) /\ rx.len = mb4.len
    BY <2>1 DEF ReadData, CInv, RxInv, Reading
  <2> QED
    BY <2>1, <2>2 DEF ReadData, Fresh, CInv, TypeOK, MainType, TransmitterType, ReceiverType, BusType, Frames, Empty
<1> QED
  BY <1>1, CanInvariance, PTL DEF Spec, HandledOnce

(* Every response is a correct verdict on one of the requests, never on    *)
(* one older than the last response.                                       *)
THEOREM ResponderHolds == Spec => ImplementsResponder
<1>1. Init => R!Init
  BY DEF Init, R!Init
<1>2. CInv /\ [Next]_vars => [R!Next]_(R!vars)
  <2> SUFFICES ASSUME CInv, [Next]_vars PROVE [R!Next]_(R!vars)
    OBVIOUS
  <2>1. ASSUME NEW correct \in BOOLEAN, TesterSends(correct) PROVE R!Next
    BY <2>1 DEF TesterSends, R!Next, R!Ask
  <2>2. CASE FrameEnds /\ bus = "device"
    <3>1. Genuine(wire) /\ wire.n \in answered .. Len(asked)
      BY <2>2 DEF CInv, TypeOK, MainType, TransmitterType, ReceiverType, BusType, RxInv, TxInv, Frames, Empty
    <3>2. wire.n > 0 /\ verdict' = asked[wire.n] /\ answered' = wire.n /\ asked' = asked
      BY <2>2, <3>1 DEF FrameEnds, Genuine
    <3> QED
      BY <3>1, <3>2 DEF R!Next, R!Answer
  <2>3. CASE UNCHANGED <<asked, answered, verdict>>
    BY <2>3 DEF R!vars
  <2> QED
    BY <2>1, <2>2, <2>3 DEF Next, Loop, DeviceSends, FrameEnds, StartSerial, EndSerial, Poll,
           NoCharacter, ReadCode, ReadLength, ReadData, ReadTimer, ClearFlag, CheckPassword,
           TxLoad, TxStore, TxData, vars, tester
<1> QED
  BY <1>1, <1>2, CanInvariance, PTL DEF Spec, ImplementsResponder, R!Spec
-----------------------------------------------------------------------------
(* The tester that waits, on a bus where no frame ends inside can0_rx.     *)

(* Where a request is once main has read it: in RxDATA, in the hands of    *)
(* can0_tx, or answered by what MB 0 is to send.                           *)
InRx == pc \in {"read_timer", "clear_iflag", "check"} /\ rx.len = 4
InTx == pc = "tx"
InMB0 == code = "data"

(* The request waited for is the last one and in one of these places at    *)
(* most; until it is in one of them it is the only one not read.           *)
OneRequest ==
  kind = "undisturbed" =>
    /\ pending = Empty
    /\ waiting \in {0, Len(asked)}
    /\ handled = Len(asked) \/ (handled = waiting - 1 /\ waiting # 0)
    /\ InRx \/ InTx \/ InMB0 \/ bus = "device" => waiting # 0 /\ handled = waiting
    /\ InMB0 => ~InRx /\ ~InTx /\ mb0.n = waiting
    /\ InTx => loaded # "data" /\ (field > Data => mb0.n = handled)
    /\ bus = "device" => InMB0 /\ ~touched /\ wire.n = waiting
    /\ bus = "tester" => waiting # 0

LEMMA OneRequestStep == CInv /\ OneRequest /\ [Next]_vars => OneRequest'
<1> SUFFICES ASSUME CInv, OneRequest, [Next]_vars, kind' = "undisturbed" PROVE OneRequest'
  BY DEF OneRequest
<1> USE BoundAssumption, FieldsLemma DEF InRx, InTx, InMB0
<1>k. kind = "undisturbed"
  BY DEF Next, Loop, TesterSends, DeviceSends, FrameEnds, StartSerial, EndSerial, Poll,
         NoCharacter, ReadCode, ReadLength, ReadData, ReadTimer, ClearFlag, CheckPassword,
         TxLoad, TxStore, TxData, vars, tester
<1> USE DEF CInv, TypeOK, MainType, TransmitterType, ReceiverType, BusType
<1>1. ASSUME NEW correct \in BOOLEAN, TesterSends(correct) PROVE OneRequest'
  BY <1>1, <1>k DEF TesterSends, OneRequest, main, transmitter, receiver
<1>2. CASE DeviceSends
  BY <1>2, <1>k DEF DeviceSends, OneRequest, main, tester, receiver
<1>3. CASE FrameEnds
  <2>1. ~locked /\ pending' = Empty
    BY <1>3, <1>k DEF FrameEnds, OneRequest, RxInv, Receive
  <2> QED
    BY <1>3, <1>k, <2>1 DEF FrameEnds, OneRequest, main
<1>4. CASE Poll \/ NoCharacter \/ StartSerial \/ EndSerial \/ ReadCode
  BY <1>4, <1>k DEF Poll, NoCharacter, StartSerial, EndSerial, ReadCode, OneRequest,
                    transmitter, receiver, tester
<1>5. CASE ReadLength
  BY <1>5, <1>k DEF ReadLength, OneRequest, transmitter, receiver, tester
<1>6. CASE ReadData
  <2>1. rx'.len = mb4.len /\ rx.len = mb4.len /\ iflag
    BY <1>6 DEF ReadData, RxInv, Reading, Frames, Empty
  <2>2. CASE mb4.len = 4
    <3>1. mb4.n > handled /\ mb4.n \in 1 .. Len(asked)
      BY <1>6, <2>1, <2>2 DEF ReadData, RxInv, Fresh, Asked
    <3>2. handled' = Len(asked) /\ waiting = Len(asked) /\ waiting # 0 /\ handled # waiting
      BY <1>6, <1>k, <2>1, <2>2, <3>1 DEF ReadData, OneRequest
    <3> QED
      BY <1>6, <1>k, <2>1, <3>2 DEF ReadData, OneRequest, transmitter, receiver, tester
  <2>3. CASE mb4.len # 4
    BY <1>6, <1>k, <2>1, <2>3 DEF ReadData, OneRequest, transmitter, receiver, tester
  <2> QED
    BY <2>2, <2>3
<1>7. CASE ReadTimer \/ ClearFlag
  BY <1>7, <1>k DEF ReadTimer, ClearFlag, OneRequest, transmitter, tester
<1>8. CASE CheckPassword
  BY <1>8, <1>k DEF CheckPassword, OneRequest, transmitter, receiver, tester, Data, TxInv
<1>9. CASE TxLoad \/ TxStore \/ TxData
  <2>1. pc = "tx" /\ tx_buffer.n = handled /\ UNCHANGED <<rx, receiver, bus, wire, tester, handled>>
    BY <1>9 DEF TxLoad, TxStore, TxData, TxInv, transmitter
  <2>2. code = "inactive" /\ bus # "device" /\ waiting # 0 /\ handled = waiting
    BY <1>k, <2>1 DEF OneRequest, Codes
  <2>3. CASE TxLoad
    BY <2>1, <2>2, <2>3, <1>k DEF TxLoad, OneRequest, transmitter, receiver, tester
  <2>4. CASE TxStore
    BY <2>1, <2>2, <2>4, <1>k DEF TxStore, TxDone, OneRequest, receiver, tester, Data, Codes, TxInv
  <2>5. CASE TxData
    BY <2>1, <2>2, <2>5, <1>k DEF TxData, TxDone, OneRequest, receiver, tester, Data
  <2> QED
    BY <1>9, <2>3, <2>4, <2>5
<1>10. CASE UNCHANGED vars
  BY <1>10, <1>k DEF OneRequest, vars, main, transmitter, receiver, tester
<1> QED
  BY <1>1, <1>2, <1>3, <1>4, <1>5, <1>6, <1>7, <1>8, <1>9, <1>10 DEF Next, Loop

(* A tester that waits is answered once: what is sent, or about to be, is  *)
(* the response to the one request it waits for.                           *)
THEOREM OneAnswerEachHolds == Spec => []OneAnswerEach
<1>1. Init => OneRequest
  BY DEF Init, OneRequest, InRx, InTx, InMB0
<1>2. CInv /\ OneRequest => OneAnswerEach
  BY DEF OneRequest, OneAnswerEach, InMB0
<1> QED
  BY <1>1, <1>2, OneRequestStep, CanInvariance, PTL DEF Spec
=============================================================================
