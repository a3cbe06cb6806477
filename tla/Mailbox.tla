------------------------------- MODULE Mailbox -------------------------------
(***************************************************************************)
(* The shared-memory mailbox between core 0 and core 1.                    *)
(*                                                                         *)
(* Core 0 (Z4_0, core_example, reached by the simpleserial command 'j')    *)
(* writes a word of shared RAM and locks hardware gate 0; core 1 (Z4_1,    *)
(* main) polls the gate, increments the word and frees the gate with the   *)
(* two-write reset sequence of Reset_Gate; core 0 polls the gate and       *)
(* prints the word.  Every access to a gate, to the reset register or to   *)
(* the word is a step of its own, since the two cores run unsynchronised.  *)
(*                                                                         *)
(* The word also lies inside the SRAM that the startup code of cores 1 and *)
(* 2 fills with zeroes (ECC initialisation), so that the fill of a core    *)
(* that is still starting is a third writer of the word.                   *)
(***************************************************************************)
EXTENDS Integers

CONSTANTS
  WordMax,    (* the largest value of a word: 2^32 - 1 in the code          *)
  Sent,       (* the word core 0 sends: 0xBAADBEEF in the code              *)
  PollLimit   (* Reset_Gate gives up once cnt exceeds this: 10 in the code  *)

ASSUME WordMaxAssumption == WordMax \in Nat \ {0}
ASSUME SentAssumption == Sent \in 0 .. WordMax
ASSUME PollLimitAssumption == PollLimit \in Nat

Word == 0 .. WordMax
Inc(w) == IF w = WordMax THEN 0 ELSE w + 1

GATE_UNLOCK == 0
CORE0_LOCK == 1

VARIABLES
  gate,    (* SEMA42.GATE[0]                                                *)
  rstgt,   (* the state machine behind SEMA42.RSTGT                         *)
  word,    (* sharedram_uint32[0]                                           *)
  pc0,     (* core 0: where main and core_example are                       *)
  sent,    (* the word core 0 printed as sent                               *)
  reply,   (* the word core 0 printed as the answer of core 1               *)
  boot,    (* cores 1 and 2: off, running startup.S, or in main             *)
  pc1,     (* core 1: where main and Reset_Gate are                         *)
  load1,   (* core 1: the register the word was loaded into                 *)
  cnt,     (* core 1: cnt of Reset_Gate                                     *)
  clean,   (* history: both cores had booted when core 0 wrote the word     *)
  quiet,   (* history: this request met core 1 polling, and was locked once *)
  worked,  (* history: core 1 stored the word since core 0 wrote it         *)
  spent    (* history: core 1 stored the word since the gate was locked     *)

history == <<clean, quiet, worked, spent>>
core0 == <<pc0, sent, reply>>
core1 == <<pc1, load1, cnt>>
vars == <<gate, rstgt, word, core0, boot, core1, history>>

Core0Points == {"prompt", "loop", "wait", "write", "show", "lock",
                "readback", "await", "reply"}
Resetting == {"arm", "armwait", "fire", "check"}
Core1Points == {"poll", "load", "store"} \union Resetting

Booted == boot = [c \in {1, 2} |-> "main"]

TypeOK ==
  /\ gate \in {GATE_UNLOCK, CORE0_LOCK}
  /\ rstgt \in {"idle", "pending", "armed"}
  /\ word \in Word /\ sent \in Word /\ reply \in Word /\ load1 \in Word
  /\ pc0 \in Core0Points
  /\ boot \in [{1, 2} -> {"off", "startup", "main"}]
  /\ pc1 \in Core1Points
  /\ cnt \in 0 .. PollLimit + 1
  /\ clean \in BOOLEAN /\ quiet \in BOOLEAN /\ worked \in BOOLEAN
  /\ spent \in BOOLEAN

(* Core 0 has run its own startup code and waits at the boot prompt. *)
Init ==
  /\ gate = GATE_UNLOCK /\ rstgt = "idle" /\ word = 0
  /\ pc0 = "prompt" /\ sent = 0 /\ reply = 0
  /\ boot = [c \in {1, 2} |-> "off"]
  /\ pc1 = "poll" /\ load1 = 0 /\ cnt = 0
  /\ clean = FALSE /\ quiet = FALSE /\ worked = FALSE
  /\ spent = FALSE

-----------------------------------------------------------------------------
(* Faulty variants of the actions below: bugs the properties must notice.  *)

(* A core that runs startup.S a second time, under the feet of the others. *)
SramInit_Again(c) ==
  /\ boot[c] # "off"
  /\ boot' = [boot EXCEPT ![c] = "main"]
  /\ word' = 0
  /\ UNCHANGED <<gate, rstgt, core0, core1, history>>

(* Core 0 reads the answer without waiting for the gate. *)
AwaitReset_NoWait ==
  /\ pc0 = "await"
  /\ pc0' = "reply"
  /\ UNCHANGED <<gate, rstgt, word, sent, reply, boot, core1, history>>

(* Core 1 waits for the gate to be free instead of locked. *)
PollGate_WrongStatus ==
  /\ boot[1] = "main" /\ pc1 = "poll"
  /\ pc1' = IF gate = GATE_UNLOCK THEN "load" ELSE "poll"
  /\ UNCHANGED <<gate, rstgt, word, core0, boot, load1, cnt, history>>

(* Reset_Gate never writes the first pattern. *)
ResetGateArm_NoPattern ==
  /\ pc1 = "arm"
  /\ cnt' = 0
  /\ pc1' = "armwait"
  /\ UNCHANGED <<gate, rstgt, word, core0, boot, load1, history>>

(* Reset_Gate polls once more than its counter allows. *)
ResetGatePoll_OneMore ==
  /\ pc1 = "armwait"
  /\ \/ /\ rstgt = "armed"
        /\ pc1' = "fire" /\ UNCHANGED cnt
     \/ /\ rstgt # "armed" /\ cnt <= PollLimit + 1
        /\ cnt' = cnt + 1 /\ UNCHANGED pc1
  /\ UNCHANGED <<gate, rstgt, word, core0, boot, load1, history>>

(* Core 1 takes a timed out Reset_Gate for a successful one. *)
CheckGate_NoRetry ==
  /\ pc1 = "check"
  /\ pc1' = "poll"
  /\ UNCHANGED <<gate, rstgt, word, core0, boot, load1, cnt, history>>

-----------------------------------------------------------------------------
(* Booting the other cores. *)

(* The user answers 'y' at the prompt: both cores leave reset. *)
turn_on_cores ==
  /\ pc0 = "prompt"
  /\ pc0' = "loop"
  /\ boot' = [c \in {1, 2} |-> "startup"]
  /\ UNCHANGED <<gate, rstgt, word, sent, reply, core1, history>>

(* Any other answer leaves them off, and the prompt is never shown again. *)
LeaveCoresOff ==
  /\ pc0 = "prompt"
  /\ pc0' = "loop"
  /\ UNCHANGED <<gate, rstgt, word, sent, reply, boot, core1, history>>

(* The ECC fill of core c passes over the word (r0 is 0), then c calls main. *)
SramInit(c) ==
  /\ boot[c] = "startup"
  /\ boot' = [boot EXCEPT ![c] = "main"]
  /\ word' = 0
  /\ UNCHANGED <<gate, rstgt, core0, core1, history>>

-----------------------------------------------------------------------------
(* The hardware semaphore block. *)

(* A free gate takes the locking core's number, a locked one keeps its own. *)
GateAfterLock(lock) == IF gate = GATE_UNLOCK THEN lock ELSE gate

(* The first pattern was accepted: RSTGSM will now read 1. *)
HwArm ==
  /\ rstgt = "pending"
  /\ rstgt' = "armed"
  /\ UNCHANGED <<gate, word, core0, boot, core1, history>>

-----------------------------------------------------------------------------
(* Core 0: one call of core_example. *)

CallCoreExample ==
  /\ pc0 = "loop"
  /\ pc0' = "wait"
  /\ UNCHANGED <<gate, rstgt, word, sent, reply, boot, core1, history>>

(* Wait for previous processing to be done. *)
WaitForGate ==
  /\ pc0 = "wait"
  /\ pc0' = IF gate = GATE_UNLOCK THEN "write" ELSE "wait"
  /\ UNCHANGED <<gate, rstgt, word, sent, reply, boot, core1, history>>

WriteWord ==
  /\ pc0 = "write"
  /\ word' = Sent
  /\ pc0' = "show"
  /\ clean' = Booted /\ quiet' = TRUE /\ worked' = FALSE
  /\ UNCHANGED <<gate, rstgt, sent, reply, boot, core1, spent>>

ShowSent ==
  /\ pc0 = "show"
  /\ sent' = word
  /\ pc0' = "lock"
  /\ UNCHANGED <<gate, rstgt, word, reply, boot, core1, history>>

(* Lock_Gate, first access: the write. *)
LockGateWrite ==
  /\ pc0 = "lock"
  /\ gate' = GateAfterLock(CORE0_LOCK)
  /\ quiet' = (quiet /\ pc1 \notin Resetting) /\ spent' = FALSE
  /\ pc0' = "readback"
  /\ UNCHANGED <<rstgt, word, sent, reply, boot, core1, clean, worked>>

(* Lock_Gate, second access: the status it returns; not ours, lock again. *)
LockGateTaken ==
  /\ pc0 = "readback" /\ gate = CORE0_LOCK
  /\ pc0' = "await"
  /\ UNCHANGED <<gate, rstgt, word, sent, reply, boot, core1, history>>

LockGateRetry ==
  /\ pc0 = "readback" /\ gate # CORE0_LOCK
  /\ pc0' = "lock"
  /\ quiet' = FALSE
  /\ UNCHANGED <<gate, rstgt, word, sent, reply, boot, core1, clean, worked,
                 spent>>

(* Wait for other core to reset this gate. *)
AwaitReset ==
  /\ pc0 = "await"
  /\ pc0' = IF gate = CORE0_LOCK THEN "await" ELSE "reply"
  /\ UNCHANGED <<gate, rstgt, word, sent, reply, boot, core1, history>>

ShowReply ==
  /\ pc0 = "reply"
  /\ reply' = word
  /\ pc0' = "loop"
  /\ UNCHANGED <<gate, rstgt, word, sent, boot, core1, history>>

LockGate == LockGateWrite \/ LockGateTaken \/ LockGateRetry

core_example == WaitForGate \/ WriteWord \/ ShowSent \/ LockGate \/ AwaitReset
                \/ ShowReply

-----------------------------------------------------------------------------
(* Core 1: the loop of main. *)

PollGate ==
  /\ boot[1] = "main" /\ pc1 = "poll"
  /\ pc1' = IF gate = CORE0_LOCK THEN "load" ELSE "poll"
  /\ UNCHANGED <<gate, rstgt, word, core0, boot, load1, cnt, history>>

LoadWord ==
  /\ pc1 = "load"
  /\ load1' = word
  /\ pc1' = "store"
  /\ UNCHANGED <<gate, rstgt, word, core0, boot, cnt, history>>

StoreWord ==
  /\ pc1 = "store"
  /\ word' = Inc(load1)
  /\ worked' = TRUE /\ spent' = TRUE
  /\ pc1' = "arm"
  /\ UNCHANGED <<gate, rstgt, core0, boot, load1, cnt, clean, quiet>>

(* Reset_Gate writes the first pattern; an armed register stays armed. *)
ResetGateArm ==
  /\ pc1 = "arm"
  /\ rstgt' = IF rstgt = "idle" THEN "pending" ELSE rstgt
  /\ cnt' = 0
  /\ pc1' = "armwait"
  /\ UNCHANGED <<gate, word, core0, boot, load1, history>>

(* while(RSTGSM != 1) if(cnt++ > PollLimit) return 1; *)
ResetGatePoll ==
  /\ pc1 = "armwait"
  /\ \/ /\ rstgt = "armed"
        /\ pc1' = "fire" /\ UNCHANGED cnt
     \/ /\ rstgt # "armed" /\ cnt <= PollLimit
        /\ cnt' = cnt + 1 /\ UNCHANGED pc1
     \/ /\ rstgt # "armed" /\ cnt > PollLimit
        /\ pc1' = "check" /\ UNCHANGED cnt
  /\ UNCHANGED <<gate, rstgt, word, core0, boot, load1, history>>

(* Reset_Gate writes the second pattern: the gate is freed. *)
ResetGateFire ==
  /\ pc1 = "fire"
  /\ gate' = GATE_UNLOCK
  /\ rstgt' = "idle"
  /\ pc1' = "check"
  /\ UNCHANGED <<word, core0, boot, load1, cnt, history>>

(* The result of Reset_Gate is ignored: main reads the gate and tries again. *)
CheckGate ==
  /\ pc1 = "check"
  /\ pc1' = IF gate = GATE_UNLOCK THEN "poll" ELSE "arm"
  /\ UNCHANGED <<gate, rstgt, word, core0, boot, load1, cnt, history>>

Reset_Gate == ResetGateArm \/ ResetGatePoll \/ ResetGateFire

core1_main == PollGate \/ LoadWord \/ StoreWord \/ Reset_Gate \/ CheckGate

-----------------------------------------------------------------------------
Next ==
  \/ turn_on_cores \/ LeaveCoresOff
  \/ \E c \in {1, 2} : SramInit(c)
  \/ HwArm
  \/ CallCoreExample \/ core_example
  \/ core1_main

Spec == Init /\ [][Next]_vars

(***************************************************************************)
(* The cores keep executing and the register arms some time after it is    *)
(* written; the user may never issue a command.  Strong fairness of        *)
(* LockGateTaken: core 1 cannot win the race against the read-back that    *)
(* directly follows core 0's write every single time.                      *)
(***************************************************************************)
Fairness ==
  /\ WF_vars(core_example) /\ SF_vars(LockGateTaken)
  /\ WF_vars(core1_main) /\ WF_vars(HwArm)
  /\ \A c \in {1, 2} : WF_vars(SramInit(c))

FairSpec == Spec /\ Fairness

-----------------------------------------------------------------------------
(* Core 1 is between the load and the store of the word only while core 0  *)
(* has handed the word over with the gate and does not touch it.           *)
WordExclusion ==
  pc1 \in {"load", "store"} =>
    gate = CORE0_LOCK /\ pc0 \in {"readback", "await"}

(* A request written after both cores booted is incremented as it stands:  *)
(* the value core 1 is about to store was computed from the current word.  *)
NoLostUpdate == (clean /\ pc1 = "store") => load1 = word

(* A request that found core 1 polling for it and whose lock was read back *)
(* at once is answered with exactly one increment.                         *)
ExactReply == (clean /\ quiet /\ pc0 = "reply") => word = Inc(Sent)

(* An answer that differs from what was sent was made by core 1: nothing   *)
(* else writes the word between the write of a clean request and its reply.*)
AnswerHasAuthor ==
  (clean /\ ~worked /\ pc0 \in {"show", "lock", "readback", "await", "reply"})
    => word = Sent

(* Without core 1, core_example never gets past the gate: the command      *)
(* hangs, as its comment says (it must not return an answer nobody made).  *)
HangsWithoutCore1 ==
  [][(pc0 = "await" /\ boot[1] # "main") => pc0' = "await"]_vars

(* With the cores on, every call of core_example returns.                  *)
JobReturns == (pc0 = "wait" /\ boot[1] # "off") ~> (pc0 = "loop")

(* "Wait for other core to reset this gate, which means they are done":    *)
(* when core 0 leaves that wait, core 1 has done its work on this request. *)
ResetMeansDone == (clean /\ pc0 = "reply") => worked

-----------------------------------------------------------------------------
(* The word belongs to core 1 from the lock to the reset of the gate.      *)
(* Core 1 has used its increment from its store until the gate changes     *)
(* hands; a fill between its load and its store leaves the system          *)
(* unsettled until the stale store has happened.                           *)
H == INSTANCE Handoff WITH
       owner <- IF gate = CORE0_LOCK THEN "server" ELSE "client",
       spent <- spent,
       settled <- Booted /\ ~(pc1 = "store" /\ load1 # word)

(* The gate protocol implements the single-owner handoff: at most one      *)
(* increment per locking of the gate, no write by a core not holding it.   *)
ImplementsHandoff == H!Spec

-----------------------------------------------------------------------------
(* Why the properties hold: the inductive invariant, in named parts.       *)

(* Only core 0 locks the gate, and it stays with the request that did.     *)
GateHeldByRequest == gate = CORE0_LOCK => pc0 \in {"readback", "await"}

(* Core 1 touches the word under the gate, and frees it only afterwards.   *)
GateHeldForWork ==
  /\ pc1 \in {"load", "store", "arm", "armwait", "fire"} => gate = CORE0_LOCK
  /\ (gate = CORE0_LOCK /\ pc1 \notin Resetting) => ~spent

(* A core that has not booted does nothing.                                *)
BootOrder ==
  /\ pc0 = "prompt" => boot[1] = "off" /\ ~clean
  /\ boot[1] # "main" => pc1 = "poll"
  /\ (boot[1] # "main" /\ pc0 = "await") => gate = CORE0_LOCK
  /\ clean => Booted

(* How far a request that met core 1 polling has got.                      *)
QuietProgress ==
  (clean /\ quiet) =>
    /\ pc0 \in {"show", "lock"} => word = Sent
    /\ gate = CORE0_LOCK => word = IF pc1 \in Resetting THEN Inc(Sent) ELSE Sent
    /\ (gate # CORE0_LOCK /\ pc0 \in {"readback", "await", "reply"})
         => word = Inc(Sent)

(* The conjunction is inductive: each part is kept by every step of either *)
(* core from states that satisfy all of them.                              *)
IInv ==
  /\ TypeOK
  /\ GateHeldByRequest /\ GateHeldForWork /\ BootOrder
  /\ NoLostUpdate /\ AnswerHasAuthor /\ QuietProgress
=============================================================================
