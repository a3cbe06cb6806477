-------------------------------- MODULE CanDemo --------------------------------
(***************************************************************************)
(* The CAN demo: the part of main's loop that checks a 4-byte password,    *)
(* the driver functions can0_rx and can0_tx, and the message buffers of    *)
(* the controller that they poll and write while the bus goes on.          *)
(*                                                                         *)
(* The driver's accesses to the controller are the steps.  can0_tx writes  *)
(* bit fields of the word that also holds CODE, so each of these is a load *)
(* and a store of that word, and the controller may change it in between.  *)
(* The numbers of the requests, in frames and variables, are history: no   *)
(* code reads them.                                                        *)
(***************************************************************************)
EXTENDS Integers, Sequences

CONSTANTS
  MaxRequests,   (* bound: how many requests are sent                       *)
  Buses          (* the kinds of tester and bus to consider                 *)

(* The tester asks as often as it likes, waits for each answer, or waits   *)
(* and no frame ends while can0_rx is between its accesses.                *)
ASSUME BoundAssumption == MaxRequests \in Nat
ASSUME BusAssumption == Buses \subseteq {"hurried", "patient", "undisturbed"}

(* A frame: its DLC, whether its data is the password (for a request) or   *)
(* says so (for a response), and the number of the request it belongs to.  *)
Frames == [len : {2, 4}, ok : BOOLEAN, n : 0 .. MaxRequests]
Empty == [len |-> 0, ok |-> FALSE, n |-> 0]

VARIABLES
  pc,         (* where main is                                              *)
  rx,         (* RxLENGTH and RxDATA                                        *)
  tx_buffer,  (* the response main has prepared                             *)
  field,      (* the write of can0_tx in progress                           *)
  loaded,     (* the CODE in the word it loaded, or "none"                  *)
  mb0, mb4,   (* the frames in the message buffers                          *)
  code,       (* CAN_0.MB[0].CS.B.CODE: "inactive" or "data" (0xC)          *)
  touched,    (* that word was written since the controller took the frame  *)
  iflag,      (* CAN_0.IFLAG1.B.BUF4TO1I = 8                                *)
  locked,     (* MB 4 is locked for the processor                           *)
  pending,    (* a frame that waits for the lock, or Empty                  *)
  bus,        (* who is sending: "idle", "tester" or "device"               *)
  wire,       (* and what                                                   *)
  kind,       (* which of Buses this is                                     *)
  asked,      (* history: the requests, as in Responder                     *)
  waiting,    (* history: the number of the request not answered yet, or 0  *)
  handled,    (* history: the number of the request read last               *)
  answered, verdict   (* history: the last response on the bus              *)

main == <<pc, rx, tx_buffer, field, loaded>>
transmitter == <<mb0, code, touched>>
receiver == <<mb4, iflag, locked, pending>>
tester == <<kind, asked, waiting, answered, verdict>>
vars == <<main, transmitter, receiver, bus, wire, tester, handled>>

(* The accesses of can0_tx to MB 0 (the ID it writes is always the same).  *)
TxFields == <<"IDE", "RTR", "DLC", "DATA", "SRR", "CODE">>
Data == 4
Reading == {"read_dlc", "read_data", "read_timer"}
Codes == {"inactive", "data"}

MainType ==
  /\ pc \in {"loop", "char", "serial", "read_code", "clear_iflag", "check", "tx"}
             \union Reading
  /\ rx \in Frames \union {Empty} /\ tx_buffer \in Frames \union {Empty}
  /\ field \in 1 .. Len(TxFields) /\ loaded \in Codes \union {"none"}

TransmitterType ==
  mb0 \in Frames \union {Empty} /\ code \in Codes /\ touched \in BOOLEAN

ReceiverType ==
  /\ mb4 \in Frames \union {Empty} /\ pending \in Frames \union {Empty}
  /\ iflag \in BOOLEAN /\ locked \in BOOLEAN

BusType ==
  /\ bus \in {"idle", "tester", "device"} /\ wire \in Frames \union {Empty}
  /\ kind \in Buses
  /\ asked \in Seq(BOOLEAN) /\ Len(asked) <= MaxRequests
  /\ waiting \in 0 .. MaxRequests /\ handled \in 0 .. MaxRequests
  /\ answered \in 0 .. MaxRequests /\ verdict \in BOOLEAN

TypeOK == MainType /\ TransmitterType /\ ReceiverType /\ BusType

(* can0_init_rx has made MB 4 an empty receive buffer and the others inactive. *)
Init ==
  /\ pc = "loop" /\ rx = Empty /\ tx_buffer = Empty /\ field = 1 /\ loaded = "none"
  /\ mb0 = Empty /\ code = "inactive" /\ touched = FALSE
  /\ mb4 = Empty /\ iflag = FALSE /\ locked = FALSE /\ pending = Empty
  /\ bus = "idle" /\ wire = Empty /\ kind \in Buses
  /\ asked = <<>> /\ waiting = 0 /\ answered = 0 /\ verdict = FALSE
  /\ handled = 0

-----------------------------------------------------------------------------
(* The controller and the bus.  Both ends use the same ID and MB 4 accepts *)
(* it, so it also receives the device's own frames (MCR leaves SRXDIS 0).  *)

TesterSends(correct) ==
  /\ bus = "idle" /\ Len(asked) < MaxRequests
  /\ kind # "hurried" => waiting = 0
  /\ asked' = Append(asked, correct)
  /\ waiting' = Len(asked) + 1
  /\ bus' = "tester"
  /\ wire' = [len |-> 4, ok |-> correct, n |-> Len(asked) + 1]
  /\ UNCHANGED <<main, transmitter, receiver, kind, answered, verdict, handled>>

DeviceSends ==
  /\ bus = "idle" /\ code = "data"
  /\ bus' = "device" /\ wire' = mb0
  /\ touched' = FALSE
  /\ UNCHANGED <<main, mb0, code, receiver, tester, handled>>

(* A frame that ends while MB 4 is locked waits for the lock. *)
Receive(frame) ==
  IF locked
    THEN pending' = frame /\ UNCHANGED <<mb4, iflag>>
    ELSE mb4' = frame /\ iflag' = TRUE /\ UNCHANGED pending

(* After its frame MB 0 is inactive; if its word was written meanwhile it  *)
(* may also stay as written.                                               *)
FrameEnds ==
  /\ bus # "idle"
  /\ kind = "undisturbed" => pc \notin Reading \union {"clear_iflag"}
  /\ Receive(wire)
  /\ bus' = "idle" /\ wire' = Empty
  /\ IF bus = "device"
       THEN /\ code' \in {"inactive"} \union (IF touched THEN {code} ELSE {})
            /\ answered' = wire.n /\ verdict' = wire.ok
            /\ waiting' = 0
       ELSE UNCHANGED <<code, answered, verdict, waiting>>
  /\ UNCHANGED <<main, mb0, touched, locked, kind, asked, handled>>

-----------------------------------------------------------------------------
(* Faulty variants of the definitions below: bugs the properties must notice. *)

(* The length is read before the buffer is locked, i.e. before its CODE. *)
ReadCode_NoLock ==
  /\ pc = "read_code"
  /\ pc' = "read_dlc"
  /\ UNCHANGED <<rx, tx_buffer, field, loaded, transmitter, receiver,
                 bus, wire, tester, handled>>

(* The timer is not read: the buffer stays locked. *)
ReadTimer_Not ==
  /\ pc = "read_timer"
  /\ pc' = "clear_iflag"
  /\ UNCHANGED <<rx, tx_buffer, field, loaded, transmitter, receiver,
                 bus, wire, tester, handled>>

(* The flag is not cleared. *)
ClearFlag_Not ==
  /\ pc = "clear_iflag"
  /\ pc' = "check"
  /\ UNCHANGED <<rx, tx_buffer, field, loaded, transmitter, receiver,
                 bus, wire, tester, handled>>

(* Any frame is taken for a password. *)
CheckPassword_AnyLength ==
  /\ pc = "check"
  /\ pc' = "tx"
  /\ tx_buffer' = [len |-> 2, ok |-> rx.ok /\ rx.len = 4, n |-> rx.n]
  /\ field' = 1
  /\ UNCHANGED <<rx, loaded, transmitter, receiver, bus, wire, tester, handled>>

(* pwok is not reset: once right, the next comparison fails. *)
CheckPassword_NoReset ==
  /\ pc = "check"
  /\ IF rx.len = 4
       THEN /\ pc' = "tx"
            /\ tx_buffer' = [len |-> 2, ok |-> rx.ok /\ ~tx_buffer.ok, n |-> rx.n]
            /\ field' = 1
       ELSE pc' = "char" /\ UNCHANGED <<tx_buffer, field>>
  /\ UNCHANGED <<rx, loaded, transmitter, receiver, bus, wire, tester, handled>>

-----------------------------------------------------------------------------
(* main's loop and can0_rx. *)

Poll ==
  /\ pc = "loop"
  /\ pc' = IF iflag THEN "read_code" ELSE "char"
  /\ UNCHANGED <<rx, tx_buffer, field, loaded, transmitter, receiver,
                 bus, wire, tester, handled>>

NoCharacter ==
  /\ pc = "char"
  /\ pc' = "loop"
  /\ UNCHANGED <<rx, tx_buffer, field, loaded, transmitter, receiver,
                 bus, wire, tester, handled>>

(* checkchar sees a character: simpleserial_get does not return before the *)
(* host has ended its command, and CAN is not looked at meanwhile.         *)
StartSerial ==
  /\ pc = "char"
  /\ pc' = "serial"
  /\ UNCHANGED <<rx, tx_buffer, field, loaded, transmitter, receiver,
                 bus, wire, tester, handled>>

EndSerial ==
  /\ pc = "serial"
  /\ pc' = "loop"
  /\ UNCHANGED <<rx, tx_buffer, field, loaded, transmitter, receiver,
                 bus, wire, tester, handled>>

(* Reading CODE locks the buffer, reading the timer releases it. *)
ReadCode ==
  /\ pc = "read_code"
  /\ pc' = "read_dlc" /\ locked' = TRUE
  /\ UNCHANGED <<rx, tx_buffer, field, loaded, transmitter, mb4, iflag, pending,
                 bus, wire, tester, handled>>

ReadLength ==
  /\ pc = "read_dlc"
  /\ pc' = "read_data" /\ rx' = [rx EXCEPT !.len = mb4.len]
  /\ UNCHANGED <<tx_buffer, field, loaded, transmitter, receiver,
                 bus, wire, tester, handled>>

ReadData ==
  /\ pc = "read_data"
  /\ pc' = "read_timer" /\ rx' = [mb4 EXCEPT !.len = rx.len]
  /\ handled' = IF rx.len = 4 THEN mb4.n ELSE handled
  /\ UNCHANGED <<tx_buffer, field, loaded, transmitter, receiver, bus, wire, tester>>

ReadTimer ==
  /\ pc = "read_timer"
  /\ pc' = "clear_iflag" /\ locked' = FALSE
  /\ IF pending # Empty
       THEN mb4' = pending /\ pending' = Empty /\ iflag' = TRUE
       ELSE UNCHANGED <<mb4, pending, iflag>>
  /\ UNCHANGED <<rx, tx_buffer, field, loaded, transmitter, bus, wire, tester, handled>>

ClearFlag ==
  /\ pc = "clear_iflag"
  /\ pc' = "check" /\ iflag' = FALSE
  /\ UNCHANGED <<rx, tx_buffer, field, loaded, transmitter, mb4, locked, pending,
                 bus, wire, tester, handled>>

(* Only a frame of four bytes is a password. *)
CheckPassword ==
  /\ pc = "check"
  /\ IF rx.len = 4
       THEN /\ pc' = "tx"
            /\ tx_buffer' = [len |-> 2, ok |-> rx.ok, n |-> rx.n]
            /\ field' = 1
       ELSE pc' = "char" /\ UNCHANGED <<tx_buffer, field>>
  /\ UNCHANGED <<rx, loaded, transmitter, receiver, bus, wire, tester, handled>>

-----------------------------------------------------------------------------
(* can0_tx: it looks at no flag, before or after. *)

TxDone ==
  IF field = Len(TxFields)
    THEN pc' = "char" /\ UNCHANGED field
    ELSE field' = field + 1 /\ UNCHANGED pc

TxLoad ==
  /\ pc = "tx" /\ field # Data /\ loaded = "none"
  /\ loaded' = code
  /\ UNCHANGED <<pc, rx, tx_buffer, field, transmitter, receiver,
                 bus, wire, tester, handled>>

TxStore ==
  /\ pc = "tx" /\ loaded # "none"
  /\ code' = IF TxFields[field] = "CODE" THEN "data" ELSE loaded
  /\ touched' = TRUE /\ loaded' = "none"
  /\ TxDone
  /\ UNCHANGED <<rx, tx_buffer, mb0, receiver, bus, wire, tester, handled>>

TxData ==
  /\ pc = "tx" /\ field = Data
  /\ mb0' = tx_buffer
  /\ TxDone
  /\ UNCHANGED <<rx, tx_buffer, loaded, code, touched, receiver,
                 bus, wire, tester, handled>>

Loop == Poll \/ NoCharacter \/ ReadCode \/ ReadLength \/ ReadData \/ ReadTimer \/ ClearFlag
        \/ CheckPassword \/ TxLoad \/ TxStore \/ TxData

Next ==
  \/ \E correct \in BOOLEAN : TesterSends(correct)
  \/ DeviceSends \/ FrameEnds
  \/ StartSerial \/ EndSerial
  \/ Loop

Spec == Init /\ [][Next]_vars

(* The processor runs; the host ends each command it begins; the bus       *)
(* carries the frames that are given to it.                                *)
FairSpec ==
  /\ Spec
  /\ WF_vars(Loop) /\ WF_vars(EndSerial)
  /\ WF_vars(DeviceSends) /\ WF_vars(FrameEnds)

-----------------------------------------------------------------------------
(* A frame is a request that was sent, with its contents unchanged.        *)
Asked(frame) ==
  frame.len = 4 => frame.n \in 1 .. Len(asked) /\ frame.ok = asked[frame.n]

(* A frame is the verdict on a request.                                    *)
Genuine(frame) ==
  frame.n \in 1 .. Len(asked) /\ frame.ok = asked[frame.n] /\ frame.len = 2

(* A request in a buffer that main is still to read.                       *)
Fresh(frame) == frame.len = 4 => frame.n > handled

(* MB 4, its lock and its flag protect a request from being torn or read   *)
(* twice.                                                                  *)
RxInv ==
  /\ locked <=> pc \in Reading
  /\ ~locked => pending = Empty
  /\ pc \in Reading \union {"read_code"} => iflag
  /\ Asked(mb4) /\ Asked(pending) /\ Fresh(pending)
  /\ iflag /\ pc \notin {"read_timer", "clear_iflag"} => Fresh(mb4)
  /\ bus = "tester" => Asked(wire) /\ Fresh(wire) /\ wire.len = 4 /\ wire.n = Len(asked)
  /\ mb4.len = 4 /\ bus = "tester" => mb4.n < wire.n
  /\ pending.len = 4 /\ bus = "tester" => pending.n < wire.n
  /\ mb4.len = 4 /\ pending.len = 4 => mb4.n < pending.n
  /\ iflag => mb4 # Empty
  /\ pc = "read_data" => rx.len = mb4.len
  /\ pc \in {"read_timer", "clear_iflag", "check"} =>
       Asked(rx) /\ (rx.len = 4 => rx.n = handled)
  /\ handled <= Len(asked)

(* What is in MB 0, or on its way from there, is a verdict in order.       *)
TxInv ==
  /\ pc = "tx" => Genuine(tx_buffer) /\ tx_buffer.n = handled
  /\ mb0 = Empty \/ Genuine(mb0)
  /\ code = "data" \/ loaded = "data" \/ (pc = "tx" /\ field > Data) => mb0 # Empty
  /\ loaded # "none" => pc = "tx" /\ field # Data
  /\ mb0.n <= handled
  /\ bus = "device" => Genuine(wire) /\ wire.n \in answered .. mb0.n
  /\ answered <= mb0.n

CInv == TypeOK /\ RxInv /\ TxInv

(* No request is handled twice, and none after a later one, however the    *)
(* polling of the flag and its clearing interleave with arriving frames.   *)
HandledOnce ==
  [][(pc = "read_data" /\ pc' = "read_timer" /\ rx'.len = 4) => rx'.n > handled]_vars

(* Every response on the bus is a correct verdict on one of the requests,  *)
(* never on one older than the last response.                              *)
R == INSTANCE Responder
ImplementsResponder == R!Spec

(* A tester that waits, on a bus where no frame ends inside can0_rx, is    *)
(* answered once per request: a response is sent, or about to be, only     *)
(* while it waits for exactly that one.                                    *)
OneAnswerEach ==
  kind = "undisturbed" =>
    /\ bus = "device" => wire.n = waiting
    /\ code = "data" => mb0.n = waiting

(* It responds with DE00 if the password is wrong and DE01 if it is        *)
(* correct: each request of a tester that waits is answered in the end.    *)
RequestAnswered ==
  \A n \in 1 .. MaxRequests :
    (kind # "hurried" /\ Len(asked) >= n) ~> (answered >= n)
=============================================================================
