---------------------------- MODULE MailboxProofs ----------------------------
(***************************************************************************)
(* Proofs about the mailbox, for every word width, every value sent and    *)
(* every polling limit of Reset_Gate.                                      *)
(***************************************************************************)
EXTENDS Mailbox, TLAPS

(* The word stays a word: the increment wraps at WordMax. *)
LEMMA IncType == ASSUME NEW w \in Word PROVE Inc(w) \in Word
  BY WordMaxAssumption DEF Word, Inc

LEMMA WordFacts == 0 \in Word /\ Sent \in Word
  BY WordMaxAssumption, SentAssumption DEF Word

LEMMA TypeInit == Init => TypeOK
<1> SUFFICES ASSUME Init PROVE TypeOK
  OBVIOUS
<1>1. gate \in {GATE_UNLOCK, CORE0_LOCK} /\ rstgt \in {"idle", "pending", "armed"}
  BY DEF Init
<1>2. word \in Word /\ sent \in Word /\ reply \in Word /\ load1 \in Word
  BY WordFacts DEF Init
<1>3. pc0 \in Core0Points /\ pc1 \in Core1Points
  BY DEF Init, Core0Points, Core1Points
<1>4. cnt \in 0 .. PollLimit + 1
  BY PollLimitAssumption DEF Init
<1>5. boot \in [{1, 2} -> {"off", "startup", "main"}]
  BY DEF Init
<1>6. clean \in BOOLEAN /\ quiet \in BOOLEAN /\ worked \in BOOLEAN
      /\ spent \in BOOLEAN
  BY DEF Init
<1> QED
  BY <1>1, <1>2, <1>3, <1>4, <1>5, <1>6 DEF TypeOK

LEMMA TypeStep == TypeOK /\ [Next]_vars => TypeOK'
<1> SUFFICES ASSUME TypeOK, [Next]_vars PROVE TypeOK'
  OBVIOUS
<1> USE DEF TypeOK
<1>1. CASE turn_on_cores
  BY <1>1 DEF turn_on_cores, Core0Points, core1, history
<1>2. CASE LeaveCoresOff
  BY <1>2 DEF LeaveCoresOff, Core0Points, core1, history
<1>3. ASSUME NEW c \in {1, 2}, SramInit(c) PROVE TypeOK'
  BY <1>3, WordFacts DEF SramInit, core0, core1, history
<1>4. CASE HwArm
  BY <1>4 DEF HwArm, core0, core1, history
<1>5. CASE CallCoreExample
  BY <1>5 DEF CallCoreExample, Core0Points, core1, history
<1>6. CASE core_example
  <2>1. CASE WaitForGate
    BY <2>1 DEF WaitForGate, Core0Points, core1, history
  <2>2. CASE WriteWord
    BY <2>2, WordFacts DEF WriteWord, Booted, Core0Points, core1, history
  <2>3. CASE ShowSent
    BY <2>3 DEF ShowSent, Core0Points, core1, history
  <2>4. CASE LockGate
    BY <2>4 DEF LockGate, LockGateWrite, LockGateTaken, LockGateRetry,
                GateAfterLock, Core0Points, core1, history
  <2>5. CASE AwaitReset
    BY <2>5 DEF AwaitReset, Core0Points, core1, history
  <2>6. CASE ShowReply
    BY <2>6 DEF ShowReply, Core0Points, core1, history
  <2> QED
    BY <1>6, <2>1, <2>2, <2>3, <2>4, <2>5, <2>6 DEF core_example
<1>7. CASE core1_main
  <2>1. CASE PollGate
    BY <2>1 DEF PollGate, Core1Points, core0, history
  <2>2. CASE LoadWord
    BY <2>2 DEF LoadWord, Core1Points, core0, history
  <2>3. CASE StoreWord
    BY <2>3, IncType DEF StoreWord, Core1Points, Resetting, core0
  <2>4. CASE ResetGateArm
    BY <2>4, PollLimitAssumption
    DEF ResetGateArm, Core1Points, Resetting, core0, history
  <2>5. CASE ResetGatePoll
    BY <2>5, PollLimitAssumption
    DEF ResetGatePoll, Core1Points, Resetting, core0, history
  <2>6. CASE ResetGateFire
    BY <2>6 DEF ResetGateFire, Core1Points, Resetting, core0, history
  <2>7. CASE CheckGate
    BY <2>7 DEF CheckGate, Core1Points, Resetting, core0, history
  <2> QED
    BY <1>7, <2>1, <2>2, <2>3, <2>4, <2>5, <2>6, <2>7 DEF core1_main, Reset_Gate
<1>8. CASE UNCHANGED vars
  BY <1>8 DEF vars, core0, core1, history
<1> QED
  BY <1>1, <1>2, <1>3, <1>4, <1>5, <1>6, <1>7, <1>8 DEF Next

(* Type correctness of the mailbox: in particular the retry counter of     *)
(* Reset_Gate never passes its limit by more than one.                     *)
THEOREM TypeCorrect == Spec => []TypeOK
  BY TypeInit, TypeStep, PTL DEF Spec

-----------------------------------------------------------------------------
(* The inductive invariant.                                                *)

LEMMA InvInit == Init => IInv
<1> SUFFICES ASSUME Init PROVE IInv
  OBVIOUS
<1>1. TypeOK
  BY TypeInit
<1>2. GateHeldByRequest /\ GateHeldForWork
  BY DEF Init, GateHeldByRequest, GateHeldForWork, GATE_UNLOCK, CORE0_LOCK
<1>3. BootOrder
  BY DEF Init, BootOrder
<1>4. NoLostUpdate /\ AnswerHasAuthor /\ QuietProgress
  BY DEF Init, NoLostUpdate, AnswerHasAuthor, QuietProgress
<1> QED
  BY <1>1, <1>2, <1>3, <1>4 DEF IInv

LEMMA InvStep == IInv /\ [Next]_vars => IInv'
<1> SUFFICES ASSUME IInv, [Next]_vars PROVE IInv'
  OBVIOUS
<1> USE DEF IInv
<1>t. TypeOK /\ TypeOK'
  BY TypeStep
<1> USE DEF GateHeldByRequest, GateHeldForWork, BootOrder, NoLostUpdate,
            AnswerHasAuthor, QuietProgress, GATE_UNLOCK, CORE0_LOCK, Resetting
<1>1. CASE turn_on_cores
  BY <1>1, <1>t DEF turn_on_cores, core1, history, TypeOK, Booted
<1>2. CASE LeaveCoresOff
  BY <1>2, <1>t DEF LeaveCoresOff, core1, history, Booted
<1>3. ASSUME NEW c \in {1, 2}, SramInit(c) PROVE IInv'
  <2>1. ~Booted
    BY <1>3, <1>t DEF SramInit, Booted, TypeOK
  <2>2. boot[1] # "main" \/ boot'[1] = boot[1]
    BY <1>3, <1>t DEF SramInit, TypeOK
  <2> QED
    BY <1>3, <1>t, <2>1, <2>2 DEF SramInit, core0, core1, history, TypeOK
<1>4. CASE HwArm
  BY <1>4, <1>t DEF HwArm, core0, core1, history, Booted
<1>5. CASE CallCoreExample
  BY <1>5, <1>t DEF CallCoreExample, core1, history, Booted
<1>6. CASE core_example
  <2>1. CASE WaitForGate
    BY <2>1, <1>t DEF WaitForGate, core1, history, Booted
  <2>2. CASE WriteWord
    BY <2>2, <1>t DEF WriteWord, core1, history, Booted, TypeOK
  <2>3. CASE ShowSent
    BY <2>3, <1>t DEF ShowSent, core1, history, Booted
  <2>4. CASE LockGateWrite
    BY <2>4, <1>t DEF LockGateWrite, GateAfterLock, core1, Booted, TypeOK
  <2>5. CASE LockGateTaken
    BY <2>5, <1>t DEF LockGateTaken, core1, history, Booted
  <2>6. CASE LockGateRetry
    BY <2>6, <1>t DEF LockGateRetry, core1, Booted, TypeOK
  <2>7. CASE AwaitReset
    BY <2>7, <1>t DEF AwaitReset, core1, history, Booted
  <2>8. CASE ShowReply
    BY <2>8, <1>t DEF ShowReply, core1, history, Booted
  <2> QED
    BY <1>6, <2>1, <2>2, <2>3, <2>4, <2>5, <2>6, <2>7, <2>8
    DEF core_example, LockGate
<1>7. CASE core1_main
  <2>1. CASE PollGate
    BY <2>1, <1>t DEF PollGate, core0, history, Booted
  <2>2. CASE LoadWord
    BY <2>2, <1>t DEF LoadWord, core0, history, Booted
  <2>3. CASE StoreWord
    BY <2>3, <1>t DEF StoreWord, core0, history, Booted, TypeOK
  <2>4. CASE ResetGateArm
    BY <2>4, <1>t DEF ResetGateArm, core0, history, Booted
  <2>5. CASE ResetGatePoll
    BY <2>5, <1>t DEF ResetGatePoll, core0, history, Booted
  <2>6. CASE ResetGateFire
    BY <2>6, <1>t DEF ResetGateFire, core0, history, Booted
  <2>7. CASE CheckGate
    BY <2>7, <1>t DEF CheckGate, core0, history, Booted, TypeOK
  <2> QED
    BY <1>7, <2>1, <2>2, <2>3, <2>4, <2>5, <2>6, <2>7 DEF core1_main, Reset_Gate
<1>8. CASE UNCHANGED vars
  BY <1>8, <1>t DEF vars, core0, core1, history, Booted
<1> QED
  BY <1>1, <1>2, <1>3, <1>4, <1>5, <1>6, <1>7, <1>8 DEF Next

(* The gate is held by the request that locked it or for its work, and a   *)
(* request that met core 1 polling is followed until its reply.            *)
THEOREM Invariance == Spec => []IInv
  BY InvInit, InvStep, PTL DEF Spec

-----------------------------------------------------------------------------
(* What the invariant gives.                                               *)

(* Core 1 reads and rewrites the word only while core 0 waits on the gate. *)
THEOREM WordExclusionHolds == Spec => []WordExclusion
<1>1. IInv => WordExclusion
  BY DEF IInv, WordExclusion, GateHeldByRequest, GateHeldForWork
<1> QED
  BY <1>1, Invariance, PTL

(* Once the cores have booted, core 1 never stores a value computed from a *)
(* word that core 0 has overwritten since.                                 *)
THEOREM NoLostUpdateHolds == Spec => []NoLostUpdate
<1>1. IInv => NoLostUpdate
  BY DEF IInv
<1> QED
  BY <1>1, Invariance, PTL

(* A request that meets neither race is answered with the word sent plus   *)
(* one, modulo the word size.                                              *)
THEOREM ExactReplyHolds == Spec => []ExactReply
<1>1. IInv => ExactReply
  BY DEF IInv, ExactReply, QuietProgress, GateHeldByRequest
<1> QED
  BY <1>1, Invariance, PTL

(* Between the write and the reply of a clean request only core 1 writes.  *)
THEOREM AnswerHasAuthorHolds == Spec => []AnswerHasAuthor
<1>1. IInv => AnswerHasAuthor
  BY DEF IInv
<1> QED
  BY <1>1, Invariance, PTL

(* Without core 1 a call of core_example never gets past the gate.         *)
THEOREM HangsWithoutCore1Holds == Spec => HangsWithoutCore1
<1>1. ASSUME IInv, [Next]_vars
      PROVE  [(pc0 = "await" /\ boot[1] # "main") => pc0' = "await"]_vars
  <2> SUFFICES ASSUME Next, pc0 = "await", boot[1] # "main"
               PROVE  pc0' = "await"
    BY <1>1
  <2>1. gate = CORE0_LOCK /\ pc1 = "poll"
    BY <1>1 DEF IInv, BootOrder
  <2>2. CASE core_example
    BY <2>1, <2>2 DEF core_example, WaitForGate, WriteWord, ShowSent, LockGate,
       LockGateWrite, LockGateTaken, LockGateRetry, AwaitReset, ShowReply
  <2>3. CASE core1_main
    BY <2>1, <2>3 DEF core1_main, PollGate, LoadWord, StoreWord, Reset_Gate,
       ResetGateArm, ResetGatePoll, ResetGateFire, CheckGate, core0
  <2> QED
    BY <2>2, <2>3 DEF Next, turn_on_cores, LeaveCoresOff, SramInit, HwArm,
       CallCoreExample, core0
<1> QED
  BY <1>1, Invariance, PTL DEF Spec, HangsWithoutCore1

-----------------------------------------------------------------------------
(* The mailbox implements the single-owner handoff.                        *)

LEMMA HandoffInit == Init => H!Init
  BY DEF Init, H!Init, Booted, GATE_UNLOCK, CORE0_LOCK

(* A step that touches neither the word, the gate nor the boot state is a  *)
(* stutter of the handoff, provided core 1 is not at its store.            *)
LEMMA HandoffStutter ==
  ASSUME UNCHANGED <<word, gate, boot, spent>>,
         (pc1 = "store" /\ load1 # word)' <=> (pc1 = "store" /\ load1 # word)
  PROVE  UNCHANGED H!vars
  BY DEF H!vars, Booted

LEMMA HandoffStep == IInv /\ [Next]_vars => [H!Next]_H!vars
<1> SUFFICES ASSUME IInv, [Next]_vars PROVE [H!Next]_H!vars
  OBVIOUS
<1> USE DEF IInv
<1>1. CASE turn_on_cores
  <2>1. ~Booted /\ ~Booted'
    BY <1>1 DEF turn_on_cores, Booted, BootOrder, TypeOK
  <2> QED
    BY <1>1, <2>1 DEF turn_on_cores, core1, history, H!vars
<1>2. CASE LeaveCoresOff
  BY <1>2, HandoffStutter DEF LeaveCoresOff, core1, history
<1>3. ASSUME NEW c \in {1, 2}, SramInit(c) PROVE H!Next
  <2>1. ~Booted
    BY <1>3 DEF SramInit, Booted
  <2> QED
    BY <1>3, <2>1 DEF SramInit, core1, history, H!Next, H!Scrub
<1>4. CASE HwArm
  BY <1>4, HandoffStutter DEF HwArm, core1, history
<1>5. CASE CallCoreExample
  BY <1>5, HandoffStutter DEF CallCoreExample, core1, history
<1>6. CASE core_example
  <2>1. CASE WaitForGate
    BY <2>1, HandoffStutter DEF WaitForGate, core1, history
  <2>2. CASE WriteWord
    <3>1. gate # CORE0_LOCK /\ pc1 # "store"
      BY <2>2 DEF WriteWord, GateHeldByRequest, GateHeldForWork
    <3> QED
      BY <2>2, <3>1 DEF WriteWord, core1, Booted, H!Next, H!Request
  <2>3. CASE ShowSent
    BY <2>3, HandoffStutter DEF ShowSent, core1, history
  <2>4. CASE LockGateWrite
    <3>1. gate = GATE_UNLOCK
      BY <2>4 DEF LockGateWrite, GateHeldByRequest, TypeOK
    <3> QED
      BY <2>4, <3>1 DEF LockGateWrite, GateAfterLock, core1, Booted, GATE_UNLOCK,
         CORE0_LOCK, H!Next, H!Give
  <2>5. CASE LockGateTaken
    BY <2>5, HandoffStutter DEF LockGateTaken, core1, history
  <2>6. CASE LockGateRetry
    BY <2>6, HandoffStutter DEF LockGateRetry, core1
  <2>7. CASE AwaitReset
    BY <2>7, HandoffStutter DEF AwaitReset, core1, history
  <2>8. CASE ShowReply
    BY <2>8, HandoffStutter DEF ShowReply, core1, history
  <2> QED
    BY <1>6, <2>1, <2>2, <2>3, <2>4, <2>5, <2>6, <2>7, <2>8
    DEF core_example, LockGate
<1>7. CASE core1_main
  <2>1. CASE PollGate
    BY <2>1, HandoffStutter DEF PollGate, core0, history
  <2>2. CASE LoadWord
    BY <2>2, HandoffStutter DEF LoadWord, core0, history
  <2>3. CASE StoreWord
    <3>1. gate = CORE0_LOCK /\ ~spent /\ spent' = TRUE
      BY <2>3 DEF StoreWord, GateHeldForWork, Resetting
    <3>2. CASE load1 = word
      BY <2>3, <3>1, <3>2 DEF StoreWord, Booted, Inc, H!Next, H!Work, H!Inc
    <3>3. CASE load1 # word
      <4>1. word' \in H!Word
        BY <2>3, TypeStep DEF StoreWord, TypeOK, Word, H!Word
      <4>2. (Booted /\ ~(pc1 = "store" /\ load1 # word))' \in BOOLEAN
        OBVIOUS
      <4> QED
        BY <2>3, <3>1, <3>3, <4>1, <4>2 DEF StoreWord, H!Next, H!Scrub
    <3> QED
      BY <3>2, <3>3
  <2>4. CASE ResetGateArm
    BY <2>4, HandoffStutter DEF ResetGateArm, core0, history
  <2>5. CASE ResetGatePoll
    BY <2>5, HandoffStutter DEF ResetGatePoll, core0, history
  <2>6. CASE ResetGateFire
    <3>1. gate = CORE0_LOCK
      BY <2>6 DEF ResetGateFire, GateHeldForWork
    <3> QED
      BY <2>6, <3>1 DEF ResetGateFire, core0, history, Booted, GATE_UNLOCK,
         CORE0_LOCK, H!Next, H!Return
  <2>7. CASE CheckGate
    BY <2>7, HandoffStutter DEF CheckGate, core0, history
  <2> QED
    BY <1>7, <2>1, <2>2, <2>3, <2>4, <2>5, <2>6, <2>7 DEF core1_main, Reset_Gate
<1>8. CASE UNCHANGED vars
  BY <1>8, HandoffStutter DEF vars, core0, core1, history
<1> QED
  BY <1>1, <1>2, <1>3, <1>4, <1>5, <1>6, <1>7, <1>8 DEF Next

(* Every behaviour of the mailbox is a behaviour of the handoff: one owner *)
(* at a time, at most one increment each time core 0 locks the gate.       *)
THEOREM Refinement == Spec => ImplementsHandoff
  BY HandoffInit, HandoffStep, Invariance, PTL DEF Spec, ImplementsHandoff, H!Spec
=============================================================================
