------------------------------- MODULE UartProofs -------------------------------
(***************************************************************************)
(* The safety of the polled UART driver, for streams of any length.        *)
(***************************************************************************)
EXTENDS Uart, TLAPS

(* A controller without traffic, and no byte counted yet.                  *)
LEMMA UInvInit == Init => UInv
<1> SUFFICES ASSUME Init PROVE UInv
    OBVIOUS
<1>1. TypeOK
  <2>1. 0 \in 0 .. MaxIn /\ 0 \in 0 .. MaxOut
        BY BoundsAssumption
  <2>2. /\ pc = "idle" /\ paced \in BOOLEAN /\ flushing \in BOOLEAN
        /\ first \in BOOLEAN /\ DRFRFE \in BOOLEAN /\ DTFTFF \in BOOLEAN
        BY DEF Init
  <2> QED
      BY <2>1, <2>2 DEF Init, TypeOK
<1>2. NothingInvented
      BY DEF Init, NothingInvented, Announced
<1> QED
    BY <1>1, <1>2 DEF Init, UInv

(* Every step of the program, of the controller or of the host keeps the   *)
(* invariant: one step of the proof for each action.                       *)
LEMMA UInvStep == UInv /\ [Next]_vars => UInv'
<1> SUFFICES ASSUME UInv, [Next]_vars PROVE UInv'
    OBVIOUS
<1> USE BoundsAssumption
<1>1. CASE ByteArrives
      BY <1>1 DEF UInv, TypeOK, NothingInvented, Announced, ByteArrives, transmitter, program
<1>2. CASE ByteSent
      BY <1>2 DEF UInv, TypeOK, NothingInvented, Announced, ByteSent, receiver, program
<1>3. CASE getch
      BY <1>3 DEF UInv, TypeOK, NothingInvented, Announced, getch, receiver, transmitter, program
<1>4. CASE putch
      BY <1>4 DEF UInv, TypeOK, NothingInvented, Announced, putch, receiver, transmitter, program
<1>5. CASE flush
      BY <1>5 DEF UInv, TypeOK, NothingInvented, Announced, flush, receiver, transmitter, program
<1>6. CASE RxWait
      BY <1>6 DEF UInv, TypeOK, NothingInvented, Announced, RxWait, receiver, transmitter, program
<1>7. CASE RxClear
  <2>1. /\ pc = "rx_clear" /\ pc' = "rx_read" /\ DRFRFE' = FALSE
        /\ UNCHANGED <<flushing, BDRM, arrived, transmitter, program>>
        BY <1>7 DEF RxClear
  <2>2. /\ taken \in Nat /\ arrived \in Nat /\ taken < arrived
        /\ paced => arrived = taken + 1
        BY <2>1 DEF UInv, TypeOK
  <2>3. TypeOK'
        BY <2>1 DEF UInv, TypeOK, transmitter, program
  <2>4. NothingInvented'
        BY <2>1, <2>2 DEF UInv, NothingInvented, Announced, program
  <2> QED
      BY <2>1, <2>2, <2>3, <2>4 DEF UInv, transmitter, program
<1>8. CASE RxRead
  <2>1. /\ pc = "rx_read" /\ pc' \in {"flush", "idle"}
        /\ last' = arrived /\ taken' = taken + 1
        /\ UNCHANGED <<flushing, receiver, transmitter, paced>>
        BY <1>8 DEF RxRead, UInv
  <2>2. /\ taken \in Nat /\ arrived \in Nat /\ arrived <= MaxIn /\ taken < arrived
        /\ DRFRFE => taken + 1 < arrived
        /\ paced => arrived = taken + 1 /\ ~DRFRFE
        BY <2>1 DEF UInv, TypeOK, NothingInvented, Announced
  <2>3. TypeOK'
        BY <2>1, <2>2 DEF UInv, TypeOK, receiver, transmitter
  <2>4. NothingInvented'
        BY <2>1, <2>2, <2>3 DEF NothingInvented, Announced, TypeOK, receiver
  <2>5. /\ (pc' = "rx_read" \/ DRFRFE') => taken' < arrived'
        /\ paced' => /\ taken' = last'
                     /\ arrived' = taken' \/ arrived' = taken' + 1
                     /\ arrived' = taken' <=> ~DRFRFE' /\ pc' # "rx_read"
                     /\ ~(DRFRFE' /\ pc' = "rx_read")
        BY <2>1, <2>2 DEF receiver
  <2>6. /\ pc' \notin {"rx_clear", "tx_first", "tx_wait", "tx_clear", "tx_write"}
        /\ BDRM' = arrived'
        BY <2>1 DEF UInv, receiver
  <2> QED
      BY <2>1, <2>3, <2>4, <2>5, <2>6 DEF UInv, transmitter
<1>9. CASE FlushCheck
      BY <1>9 DEF UInv, TypeOK, NothingInvented, Announced, FlushCheck, receiver, transmitter, program
<1>10. CASE TxFirst
      BY <1>10 DEF UInv, TypeOK, NothingInvented, Announced, TxFirst, receiver, program
<1>11. CASE TxWait
      BY <1>11 DEF UInv, TypeOK, NothingInvented, Announced, TxWait, receiver, transmitter, program
<1>12. CASE TxClear
      BY <1>12 DEF UInv, TypeOK, NothingInvented, Announced, TxClear, receiver, program
<1>13. CASE TxWrite
      BY <1>13 DEF UInv, TypeOK, NothingInvented, Announced, TxWrite, receiver, program
<1>14. CASE UNCHANGED vars
      BY <1>14 DEF UInv, TypeOK, NothingInvented, Announced, vars, receiver, transmitter, program
<1> QED
    BY <1>1, <1>2, <1>3, <1>4, <1>5, <1>6, <1>7, <1>8, <1>9, <1>10, <1>11,
       <1>12, <1>13, <1>14 DEF Next, rxLINFlexD_0, txLINFlexD_0

-----------------------------------------------------------------------------
(* In every run of the driver the invariant holds.                         *)
THEOREM UartInvariance == Spec => []UInv
<1>1. UInv /\ [Next]_vars => UInv'
      BY UInvStep
<1> QED
    BY UInvInit, <1>1, PTL DEF Spec

(* The driver's variables and the history stay within their types.         *)
THEOREM UartTypeCorrect == Spec => []TypeOK
<1>1. UInv => TypeOK
      BY DEF UInv
<1> QED
    BY UartInvariance, <1>1, PTL

(* rxLINFlexD_0 returns no byte more often than bytes were received, at    *)
(* whatever pace the host sends.                                           *)
THEOREM NothingInventedHolds == Spec => []NothingInvented
<1>1. UInv => NothingInvented
      BY DEF UInv
<1> QED
    BY UartInvariance, <1>1, PTL

(* A host that waits for each byte to be taken loses none.                 *)
THEOREM NothingLostHolds == Spec => []NothingLost
<1>1. UInv => NothingLost
      BY DEF UInv, NothingLost
<1> QED
    BY UartInvariance, <1>1, PTL

(* txLINFlexD_0 writes a byte only when the one before has left, and so    *)
(* each of them leaves, in order, across the first one's missing wait.     *)
THEOREM SentInOrderHolds == Spec => SentInOrder
<1>1. UInv /\ [Next]_vars => (put' # put => out = put)
  <2> SUFFICES ASSUME UInv, [Next]_vars, put' # put PROVE out = put
      OBVIOUS
  <2>1. TxWrite
        BY DEF Next, vars, rxLINFlexD_0, txLINFlexD_0, ByteArrives, ByteSent,
           getch, putch, flush, RxWait, RxClear, RxRead, FlushCheck, TxFirst,
           TxWait, TxClear, receiver, transmitter, program
  <2> QED
      BY <2>1 DEF TxWrite, UInv
<1>2. UInv /\ [Next]_vars => (out' # out => out' = out + 1)
  <2> SUFFICES ASSUME UInv, [Next]_vars, out' # out PROVE out' = out + 1
      OBVIOUS
  <2>1. ByteSent
        BY DEF Next, vars, rxLINFlexD_0, txLINFlexD_0, ByteArrives, TxWrite,
           getch, putch, flush, RxWait, RxClear, RxRead, FlushCheck, TxFirst,
           TxWait, TxClear, receiver, transmitter, program
  <2> QED
      BY <2>1 DEF ByteSent, UInv, TypeOK
<1> QED
    BY UartInvariance, <1>1, <1>2, PTL DEF Spec, SentInOrder
=============================================================================
