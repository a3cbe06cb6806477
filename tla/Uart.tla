---------------------------------- MODULE Uart ----------------------------------
(***************************************************************************)
(* linflexd_uart.c, port 0: the polled, one byte at a time UART driver,    *)
(* between the program, which calls getch, putch and flush as it likes,    *)
(* and the controller, which receives and transmits meanwhile.             *)
(*                                                                         *)
(* Bytes are represented by their numbers in the order in which the host   *)
(* sends them, and in which the program writes them.                       *)
(***************************************************************************)
EXTENDS Integers

CONSTANTS
  MaxIn, MaxOut   (* bounds: how many bytes the host and the program send   *)

ASSUME BoundsAssumption == MaxIn \in Nat /\ MaxOut \in Nat

VARIABLES
  paced,     (* the host sends a byte only once the last one was taken      *)
  pc,        (* where the program is in the driver                          *)
  flushing,  (* rxLINFlexD_0 was called by flushLINFlexD_0                  *)
  first,     (* UARTFirstTransmitFlag                                       *)
  BDRM,      (* the receive buffer                                          *)
  DRFRFE,    (* data reception completed                                    *)
  DTFTFF,    (* data transmission completed                                 *)
  shift,     (* the transmitter: the byte it is sending, 0 when it has none *)
  arrived,   (* history: how many bytes have been received                  *)
  taken,     (* history: how many times rxLINFlexD_0 has returned           *)
  last,      (* history: the byte it returned last                          *)
  put,       (* history: how many bytes have been written                   *)
  out        (* history: the byte the host has received last                *)

receiver == <<BDRM, DRFRFE, arrived>>
transmitter == <<first, DTFTFF, shift, put, out>>
program == <<taken, last, paced>>
vars == <<pc, flushing, receiver, transmitter, program>>

TypeOK ==
  /\ pc \in {"idle", "rx_wait", "rx_clear", "rx_read", "flush",
             "tx_first", "tx_wait", "tx_clear", "tx_write"}
  /\ paced \in BOOLEAN /\ flushing \in BOOLEAN /\ first \in BOOLEAN
  /\ DRFRFE \in BOOLEAN /\ DTFTFF \in BOOLEAN
  /\ BDRM \in 0 .. MaxIn /\ arrived \in 0 .. MaxIn
  /\ taken \in 0 .. MaxIn /\ last \in 0 .. MaxIn
  /\ shift \in 0 .. MaxOut /\ put \in 0 .. MaxOut /\ out \in 0 .. MaxOut

(* initLINFlexD_0 has cleared the flags of the receiver. *)
Init ==
  /\ paced \in BOOLEAN
  /\ pc = "idle" /\ flushing = FALSE /\ first = TRUE
  /\ BDRM = 0 /\ DRFRFE = FALSE /\ DTFTFF = FALSE /\ shift = 0
  /\ arrived = 0 /\ taken = 0 /\ last = 0 /\ put = 0 /\ out = 0

-----------------------------------------------------------------------------
(* The controller and the host at the other end of the line.               *)

(* A byte replaces the one in the buffer, taken or not. *)
ByteArrives ==
  /\ arrived < MaxIn
  /\ paced => arrived = taken
  /\ arrived' = arrived + 1
  /\ BDRM' = arrived + 1 /\ DRFRFE' = TRUE
  /\ UNCHANGED <<pc, flushing, transmitter, program>>

ByteSent ==
  /\ shift # 0
  /\ out' = shift
  /\ shift' = 0 /\ DTFTFF' = TRUE
  /\ UNCHANGED <<pc, flushing, receiver, first, put, program>>

-----------------------------------------------------------------------------
(* Faulty variants: bugs the properties must notice. *)

(* The flag is left set: the byte will be taken again. *)
RxClear_Not ==
  /\ pc = "rx_clear"
  /\ pc' = "rx_read"
  /\ UNCHANGED <<flushing, receiver, transmitter, program>>

(* The flag is not waited for. *)
RxWait_Not ==
  /\ pc = "rx_wait"
  /\ pc' = "rx_clear"
  /\ UNCHANGED <<flushing, receiver, transmitter, program>>

(* The flag for the first byte is never cleared: no byte waits. *)
TxFirst_NotCleared ==
  /\ pc = "tx_first"
  /\ pc' = IF first THEN "tx_write" ELSE "tx_wait"
  /\ UNCHANGED <<flushing, receiver, transmitter, program>>

(* The flag for the first byte starts out cleared. *)
TxFirst_Never ==
  /\ pc = "tx_first"
  /\ first' = FALSE
  /\ pc' = "tx_wait"
  /\ UNCHANGED <<flushing, receiver, DTFTFF, shift, put, out, program>>

-----------------------------------------------------------------------------
(* The program calls the driver. *)

getch ==
  /\ pc = "idle"
  /\ pc' = "rx_wait"
  /\ UNCHANGED <<flushing, receiver, transmitter, program>>

flush ==
  /\ pc = "idle"
  /\ pc' = "flush" /\ flushing' = TRUE
  /\ UNCHANGED <<receiver, transmitter, program>>

putch ==
  /\ pc = "idle" /\ put < MaxOut
  /\ pc' = "tx_first"
  /\ UNCHANGED <<flushing, receiver, transmitter, program>>

(* rxLINFlexD_0: wait for the flag, clear it, and only then read the byte. *)
RxWait ==
  /\ pc = "rx_wait" /\ DRFRFE
  /\ pc' = "rx_clear"
  /\ UNCHANGED <<flushing, receiver, transmitter, program>>

RxClear ==
  /\ pc = "rx_clear"
  /\ DRFRFE' = FALSE
  /\ pc' = "rx_read"
  /\ UNCHANGED <<flushing, BDRM, arrived, transmitter, program>>

RxRead ==
  /\ pc = "rx_read"
  /\ last' = BDRM /\ taken' = taken + 1
  /\ pc' = IF flushing THEN "flush" ELSE "idle"
  /\ UNCHANGED <<flushing, receiver, transmitter, paced>>

(* flushLINFlexD_0: take bytes until checkLINFlexD_0 sees none. *)
FlushCheck ==
  /\ pc = "flush"
  /\ IF DRFRFE
       THEN pc' = "rx_wait" /\ UNCHANGED flushing
       ELSE pc' = "idle" /\ flushing' = FALSE
  /\ UNCHANGED <<receiver, transmitter, program>>

(* txLINFlexD_0: all but the first byte wait for the one before.           *)
TxFirst ==
  /\ pc = "tx_first"
  /\ first' = FALSE
  /\ pc' = IF first THEN "tx_write" ELSE "tx_wait"
  /\ UNCHANGED <<flushing, receiver, DTFTFF, shift, put, out, program>>

TxWait ==
  /\ pc = "tx_wait" /\ DTFTFF
  /\ pc' = "tx_clear"
  /\ UNCHANGED <<flushing, receiver, transmitter, program>>

TxClear ==
  /\ pc = "tx_clear"
  /\ DTFTFF' = FALSE
  /\ pc' = "tx_write"
  /\ UNCHANGED <<flushing, receiver, first, shift, put, out, program>>

(* A byte written while another is being sent replaces it. *)
TxWrite ==
  /\ pc = "tx_write"
  /\ put' = put + 1 /\ shift' = put + 1
  /\ pc' = "idle"
  /\ UNCHANGED <<flushing, receiver, first, DTFTFF, out, program>>

rxLINFlexD_0 == RxWait \/ RxClear \/ RxRead
txLINFlexD_0 == TxFirst \/ TxWait \/ TxClear \/ TxWrite

Next ==
  \/ ByteArrives \/ ByteSent
  \/ getch \/ putch \/ flush
  \/ rxLINFlexD_0 \/ txLINFlexD_0 \/ FlushCheck

Spec == Init /\ [][Next]_vars

(* The processor runs and the transmitter sends; the host need not.        *)
FairSpec ==
  /\ Spec
  /\ WF_vars(rxLINFlexD_0 \/ FlushCheck) /\ WF_vars(txLINFlexD_0)
  /\ WF_vars(ByteSent)

-----------------------------------------------------------------------------
(* A byte is announced once: the announcements the program has used and    *)
(* the one it may still use are never more than the bytes received.        *)
Announced ==
  taken + (IF DRFRFE THEN 1 ELSE 0) + (IF pc = "rx_read" THEN 1 ELSE 0)

(* Whatever the host's pace, no byte is made up: the k-th byte taken is at *)
(* least the k-th one sent, and at most the last one received.             *)
NothingInvented == taken <= last /\ last <= arrived /\ Announced <= arrived

(* A host that waits until its byte is taken loses none, whether it is     *)
(* taken by getch or thrown away by flush.                                 *)
NothingLost == paced => taken = last

(* Every byte written is sent, once and in order: each one is written only *)
(* when the one before it has left.                                        *)
SentInOrder ==
  /\ [][put' # put => out = put]_vars
  /\ [][out' # out => out' = out + 1]_vars

(* putch returns, and what it wrote is sent.                               *)
PutReturns == \A n \in 1 .. MaxOut : (pc = "tx_first" /\ put = n - 1) ~> (out = n)

(* The inductive invariant. *)
UInv ==
  /\ TypeOK
  /\ NothingInvented
  /\ BDRM = arrived
  /\ pc = "rx_clear" => DRFRFE
  /\ (pc = "rx_read" \/ DRFRFE) => taken < arrived
  /\ paced => /\ taken = last
              /\ arrived = taken \/ arrived = taken + 1
              /\ arrived = taken <=> ~DRFRFE /\ pc # "rx_read"
              /\ ~(DRFRFE /\ pc = "rx_read")
  /\ first => put = 0 /\ shift = 0 /\ out = 0 /\ ~DTFTFF
  /\ pc \in {"tx_wait", "tx_clear"} => ~first
  /\ IF pc = "tx_write" THEN ~first /\ ~DTFTFF /\ shift = 0 /\ out = put
     ELSE first \/ (DTFTFF /\ shift = 0 /\ out = put)
                \/ (~DTFTFF /\ shift = put /\ shift > 0 /\ out = put - 1)
  /\ pc = "tx_clear" => DTFTFF
  /\ pc \in {"tx_first", "tx_wait", "tx_clear", "tx_write"} => put < MaxOut
=============================================================================
