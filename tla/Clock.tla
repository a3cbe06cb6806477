---------------------------------- MODULE Clock ----------------------------------
(***************************************************************************)
(* mode.c: the functions that set the clock dividers, configure the modes  *)
(* and enter one, write by write, while the mode entry hardware switches   *)
(* the system clock.  The firmware calls system16mhz; system40mhz and      *)
(* system160mhz are there for projects that want another clock.            *)
(***************************************************************************)
EXTENDS Integers, Sequences

CONSTANTS
  Setups,       \* which of the functions may be the one that is called
  Crystals,     \* MHz of the external clock
  ResetDivider  \* what reset leaves in a divider

VARIABLES
  setup,        \* the function that is called
  xosc,         \* the external clock
  step,         \* its next write
  reg,          \* the registers it writes
  mtrans,       \* MC_ME.GS.B.S_MTRANS
  sysclk        \* where the system clock comes from

vars == <<setup, xosc, step, reg, mtrans, sysclk>>

Dividers == {"DC0", "DC1", "DC5", "DC2"}

(* The dividers, the post divider of the PLL, the clock each mode selects, *)
(* and the last word written to MCTL.                                      *)
Init ==
  /\ setup \in Setups /\ xosc \in Crystals
  /\ step = 1
  /\ reg = [dc |-> [d \in Dividers |-> ResetDivider], RFDPHI |-> 0,
            mc |-> [mode \in {"DRUN", "RUN1"} |-> "FIRC"],
            MCTL |-> [mode |-> "DRUN", key |-> "none"]]
  /\ mtrans = FALSE
  /\ sysclk = "FIRC"

-----------------------------------------------------------------------------
Div(d, n) == [reg EXCEPT !.dc[d].div = n]
Enable(d, on) == [reg EXCEPT !.dc[d].de = on]
Mode(mode, clock) == [reg EXCEPT !.mc[mode] = clock]
Key(mode, key) == [reg EXCEPT !.MCTL = [mode |-> mode, key |-> key]]

(* What the registers become, write by write. *)
SetDividers ==
  LET fast == setup # "system16mhz"
  IN  <<Div("DC0", 0), Enable("DC0", fast),
        Div("DC1", IF fast THEN 1 ELSE 0), Enable("DC1", fast),
        [reg EXCEPT !.dc["DC5"] = reg.dc["DC1"]],
        Div("DC2", 3), Enable("DC2", TRUE)>>

PLL(rfdphi) ==
  <<[reg EXCEPT !.RFDPHI = rfdphi], Mode("DRUN", "PLL"), Key("DRUN", "5AF0"), Key("DRUN", "A50F")>>

(* Faulty variant: RUN_MC[1] is forgotten. *)
XTAL_16MHz_OnlyDRUN ==
  <<Mode("DRUN", "XOSC"), reg, Key("RUN1", "5AF0"), Key("RUN1", "A50F")>>

XTAL_16MHz ==
  <<Mode("DRUN", "XOSC"), Mode("RUN1", "XOSC"), Key("RUN1", "5AF0"), Key("RUN1", "A50F")>>

Switch == CASE setup = "system16mhz" -> XTAL_16MHz
            [] setup = "system40mhz" -> PLL(3)
            [] setup = "system160mhz" -> PLL(1)

(* Faulty variant: the clock is switched before the dividers are set. *)
Program_SwitchFirst == Switch \o SetDividers

Program == SetDividers \o Switch

(* The inverted key after the key starts the transition. *)
Started(before, after) ==
  before.MCTL.key = "5AF0" /\ after.MCTL = [mode |-> before.MCTL.mode, key |-> "A50F"]

Write ==
  /\ step <= Len(Program)
  /\ reg' = Program[step]
  /\ mtrans' = (mtrans \/ Started(reg, reg'))
  /\ step' = step + 1
  /\ UNCHANGED <<setup, xosc, sysclk>>

(* The hardware has found the clocks of the mode stable. *)
Transition ==
  /\ mtrans
  /\ mtrans' = FALSE
  /\ sysclk' = reg.mc[reg.MCTL.mode]
  /\ UNCHANGED <<setup, xosc, step, reg>>

(* The wait for S_MTRANS is over. *)
Done == step > Len(Program) /\ ~mtrans

(* turn_on_cores writes the keys of RUN1 once more. *)
Reenter ==
  /\ reg' = Key("RUN1", "A50F")
  /\ mtrans' = TRUE
  /\ UNCHANGED <<setup, xosc, step, sysclk>>

-----------------------------------------------------------------------------
MHz == CASE sysclk = "FIRC" -> 16
         [] sysclk = "XOSC" -> xosc
         [] sysclk = "PLL" -> (xosc * 16) \div 2^(reg.RFDPHI + 1)

Limit == [d \in Dividers |-> CASE d = "DC0" -> 160 [] d \in {"DC1", "DC5"} -> 80 [] d = "DC2" -> 40]

(* No clock domain ever runs faster than it may (F160, S80, FS80, S40),    *)
(* and whenever the reset clock is left S80 and FS80 are divided alike.    *)
DomainsInRange ==
  /\ \A d \in Dividers : reg.dc[d].de => MHz <= Limit[d] * (reg.dc[d].div + 1)
  /\ sysclk # "FIRC" => reg.dc["DC1"] = reg.dc["DC5"]

(* Once system16mhz has returned, the processor runs from the external     *)
(* clock and S40, which the PASS module needs, is on: turning on the other *)
(* cores enters RUN1 again and leaves both as they are.                    *)
ExternalClockKept ==
  setup = "system16mhz" /\ Done => sysclk = "XOSC" /\ reg.dc["DC2"].de
=============================================================================
