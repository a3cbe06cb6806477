---------------------------------- MODULE Boot ----------------------------------
(***************************************************************************)
(* The boot of the whole chip: the start-up code of each core, and on the  *)
(* first core platform_init with its clock before the prompt that may turn *)
(* on the others, which enters a mode once more.                           *)
(***************************************************************************)
EXTENDS CoreStartup

CONSTANTS Setups, Crystals, ResetDivider

ASSUME SetupsAssumption == Setups \subseteq {"system16mhz", "system40mhz", "system160mhz"}
ASSUME CrystalsAssumption == Crystals \subseteq 1 .. 40  \* the PLL is set up for 40 MHz
ASSUME DividerAssumption == ResetDivider \in [div : Nat, de : BOOLEAN]

VARIABLES setup, xosc, step, reg, mtrans, sysclk

Clocks == INSTANCE Clock

clock == <<setup, xosc, step, reg, mtrans, sysclk>>
bootVars == <<vars, clock>>

BootInit == Init /\ Clocks!Init

platform_init == pc[Main] = "main" /\ Clocks!Write /\ UNCHANGED vars

ModeEntered == Clocks!Transition /\ UNCHANGED vars

Prompt ==
  /\ Clocks!Done
  /\ \/ turn_on_cores /\ Clocks!Reenter
     \/ LeaveCoresOff /\ UNCHANGED clock

StartCore(c) == Start(c) /\ UNCHANGED clock

BootNext == platform_init \/ ModeEntered \/ Prompt \/ \E c \in Cores : StartCore(c)

BootSpec == BootInit /\ [][BootNext]_bootVars

DomainsInRange == Clocks!DomainsInRange
ExternalClockKept == Clocks!ExternalClockKept
=============================================================================
