--------------------------------- MODULE Console ---------------------------------
(***************************************************************************)
(* Commands together with g: glitch_call runs one of the loops of Glitch   *)
(* in the handler's place, and the trigger pin is the same pin.            *)
(***************************************************************************)
EXTENDS Commands

CONSTANTS N, Every, MaxGlitches

ASSUME LoopAssumption == N \in Nat /\ Every \in Nat \ {0} /\ MaxGlitches \in Nat

VARIABLES loop, seen, glitches, ran

Glitches == INSTANCE Glitch

all == <<vars, loop, seen, glitches, ran>>

ConsoleInit == Init /\ Glitches!Init

(* Any other argument prints that the call is invalid. *)
glitch_call(data) ==
  /\ Called("g")
  /\ IF data \in 1 .. 3
       THEN /\ Glitches!Call(data)
            /\ pc' = "glitch"
            /\ UNCHANGED <<cmd, pt, answer, status>>
       ELSE Return(0) /\ UNCHANGED <<loop, seen, glitches, ran>>
  /\ UNCHANGED <<engines, pwgroup, PASS, menu>>

GlitchStep ==
  /\ pc = "glitch"
  /\ Glitches!Next
  /\ pc' = IF loop'.at = "returned" THEN "idle" ELSE pc
  /\ status' = IF loop'.at = "returned" THEN 0 ELSE status
  /\ UNCHANGED <<engines, pwgroup, PASS, cmd, pt, answer, menu>>

ConsoleNext ==
  \/ Next /\ UNCHANGED <<loop, seen, glitches, ran>>
  \/ \E data \in 0 .. 3 : glitch_call(data)
  \/ GlitchStep

ConsoleSpec == ConsoleInit /\ [][ConsoleNext]_all

ReportsGlitches == Glitches!ReportsGlitches
=============================================================================
