--------------------------- MODULE CoreStartupProofs ---------------------------
(***************************************************************************)
(* Proofs about CoreStartup, for any cores and any memory map that keeps   *)
(* their data areas apart, and about Boot, which adds the clock set-up.    *)
(***************************************************************************)
EXTENDS Boot, Sequences, TLAPS

(* However large .data, what is copied lies in what was filled and is not  *)
(* shared.                                                                 *)
LEMMA CopiedInReach ==
  ASSUME NEW c \in Cores, size[c] \in Sizes[c]
  PROVE  Copied(c) \subseteq (FillFirst[c] .. FillLast[c]) \ Shared
<1>1. /\ DataFirst[c] \in Int /\ size[c] \in Nat
      /\ DataFirst[c] .. DataFirst[c] + size[c] + 1 \subseteq (FillFirst[c] .. FillLast[c]) \ Shared
  BY DataAssumption
<1>2. Loaded(size[c]) \in Nat /\ Loaded(size[c]) <= size[c] + 2
  BY <1>1 DEF Loaded
<1>3. Copied(c) \subseteq DataFirst[c] .. DataFirst[c] + size[c] + 1
  BY <1>1, <1>2 DEF Copied
<1> QED
  BY <1>1, <1>3

(* Who is spared depends on the memory map and the sizes, which stay.      *)
LEMMA SparedStays == size' = size => Spared' = Spared
  BY DEF Spared, Copied

LEMMA SInvInit == Init => SInv
<1> SUFFICES ASSUME Init PROVE SInv
  OBVIOUS
<1>1. TypeOK
  <2>1. pc \in [Cores -> {"off", "fill", "copy", "bss", "main"}]
    BY DEF Init
  <2>2. mem \in [Blocks -> Cores \union {"raw", "zero"}] /\ asked \in BOOLEAN
    BY DEF Init
  <2>3. next \in [Cores -> Int] /\ \A c \in Cores : next[c] \in FillFirst[c] .. FillLast[c]
    BY RangeAssumption DEF Init
  <2>4. \A c \in Cores : size[c] \in Sizes[c]
    BY DEF Init
  <2> QED
    BY <2>1, <2>2, <2>3, <2>4 DEF TypeOK
<1>2. ASSUME NEW c \in Cores, pc[c] = "fill"
      PROVE  FillFirst[c] .. next[c] - 1 = {}
  BY RangeAssumption DEF Init
<1>3. \A b \in Shared : mem[b] \notin Cores
  BY CoresAssumption, RangeAssumption, SharedAssumption DEF Init
<1> QED
  BY <1>1, <1>2, <1>3, CoresAssumption DEF Init, SInv, Spared

(* Writing valid contents to a block leaves no block worse than it was.    *)
LEMMA FillStep ==
  ASSUME SInv, NEW c \in Cores, Fill(c)
  PROVE  SInv'
<1> USE RangeAssumption, CoresAssumption
<1>1. /\ pc[c] = "fill" /\ next[c] \in FillFirst[c] .. FillLast[c] /\ next[c] \in Blocks
      /\ FillFirst[c] \in Int /\ FillLast[c] \in Int /\ next[c] \in Int
  BY DEF Fill, SInv, TypeOK
<1>2. \A b \in Blocks : mem'[b] = IF b = next[c] THEN "zero" ELSE mem[b]
  BY <1>1 DEF Fill, SInv, TypeOK
<1>3. \A d \in Cores \ {c} : pc'[d] = pc[d] /\ next'[d] = next[d]
  BY DEF Fill, SInv, TypeOK
<1>4. TypeOK'
  <2>1. mem' \in [Blocks -> Cores \union {"raw", "zero"}]
    BY DEF Fill, SInv, TypeOK
  <2>2. CASE next[c] = FillLast[c]
    BY <2>1, <2>2 DEF Fill, SInv, TypeOK
  <2>3. CASE next[c] # FillLast[c]
    <3>1. next[c] + 1 \in FillFirst[c] .. FillLast[c]
      BY <1>1, <2>3
    <3> QED
      BY <2>1, <2>3, <3>1 DEF Fill, SInv, TypeOK
  <2> QED
    BY <2>2, <2>3
<1>5. \A b \in Blocks : mem'[b] = "raw" => mem[b] = "raw" /\ b # next[c]
  BY <1>2
<1>6. ASSUME NEW d \in Cores
      PROVE  /\ pc'[d] = "fill" => \A b \in FillFirst[d] .. next'[d] - 1 : mem'[b] # "raw"
             /\ pc'[d] \in {"copy", "bss", "main"} => \A b \in Filled(d) : mem'[b] # "raw"
             /\ pc'[d] = "off" => next'[d] = FillFirst[d]
  <2>1. FillFirst[d] .. FillLast[d] \subseteq Blocks /\ FillFirst[d] \in Int
        /\ FillLast[d] \in Int /\ next[d] \in FillFirst[d] .. FillLast[d]
    BY DEF SInv, TypeOK
  <2>2. CASE d # c
    BY <1>3, <1>5, <2>1, <2>2 DEF SInv, Filled
  <2>3. CASE d = c /\ next[c] = FillLast[c]
    <3>1. pc'[c] = "copy"
      BY <2>3 DEF Fill, SInv, TypeOK
    <3>2. \A b \in FillFirst[c] .. next[c] - 1 : mem[b] # "raw"
      BY <1>1 DEF SInv
    <3>3. \A b \in Filled(c) : b \in FillFirst[c] .. next[c] - 1 \/ b = next[c]
      BY <1>1, <2>3 DEF Filled
    <3> QED
      BY <1>5, <2>1, <2>3, <3>1, <3>2, <3>3 DEF Filled
  <2>4. CASE d = c /\ next[c] # FillLast[c]
    <3>1. pc'[c] = "fill" /\ next'[c] = next[c] + 1
      BY <1>1, <2>4 DEF Fill, SInv, TypeOK
    <3>2. \A b \in FillFirst[c] .. next[c] - 1 : mem[b] # "raw"
      BY <1>1 DEF SInv
    <3>3. \A b \in FillFirst[c] .. next'[c] - 1 :
             b \in Blocks /\ (b \in FillFirst[c] .. next[c] - 1 \/ b = next[c])
      BY <1>1, <2>1, <2>4, <3>1
    <3> QED
      BY <1>5, <2>4, <3>1, <3>2, <3>3
  <2> QED
    BY <2>2, <2>3, <2>4
<1>7. /\ pc'[Main] # "main" => \A d \in Cores \ {Main} : pc'[d] = "off"
      /\ pc'[Main] # "off"
  BY <1>1, <1>3 DEF Fill, SInv, TypeOK
<1>8. ASSUME NEW d \in Spared, pc'[d] \in {"bss", "main"}, NEW b \in Own[d]
      PROVE  mem'[b] = d
  <2>1. d \in Cores /\ d # c /\ pc[d] = pc'[d] /\ mem[b] = d /\ b \in Blocks
    BY <1>1, <1>3, <1>8, OwnAssumption DEF Spared, Fill, SInv, TypeOK
  <2>2. c # Main
    BY <1>1, <2>1, <1>8 DEF SInv
  <2>3. b # next[c]
    BY <1>1, <2>1, <2>2 DEF Spared, Filled
  <2> QED
    BY <1>2, <2>1, <2>3
<1>9. ASSUME NEW b \in Shared PROVE mem'[b] \notin Cores
  BY <1>2, SharedAssumption DEF SInv
<1>10. Spared' = Spared
  BY SparedStays DEF Fill
<1> QED
  BY <1>4, <1>6, <1>7, <1>8, <1>9, <1>10 DEF SInv, Filled

LEMMA CopyStep ==
  ASSUME SInv, NEW c \in Cores, DATACOPY(c)
  PROVE  SInv'
<1> USE RangeAssumption, CoresAssumption
<1>1. \A b \in Blocks : mem'[b] = IF b \in Own[c] \union Copied(c) THEN c ELSE mem[b]
  BY DEF DATACOPY
<1>2. next' = next /\ size' = size /\ pc[c] = "copy" /\ pc' = [pc EXCEPT ![c] = "bss"]
  BY DEF DATACOPY
<1>3. TypeOK'
  BY <1>2 DEF DATACOPY, SInv, TypeOK
<1>4. \A b \in Blocks : mem'[b] = "raw" => mem[b] = "raw"
  BY <1>1
<1>5. ASSUME NEW d \in Cores
      PROVE  /\ pc'[d] = "fill" => \A b \in FillFirst[d] .. next'[d] - 1 : mem'[b] # "raw"
             /\ pc'[d] \in {"copy", "bss", "main"} => \A b \in Filled(d) : mem'[b] # "raw"
             /\ pc'[d] = "off" => next'[d] = FillFirst[d]
  <2>1. FillFirst[d] .. FillLast[d] \subseteq Blocks /\ FillFirst[d] \in Int
        /\ FillLast[d] \in Int /\ next[d] \in FillFirst[d] .. FillLast[d]
    BY DEF SInv, TypeOK
  <2>2. FillFirst[d] .. next[d] - 1 \subseteq Blocks
    BY <2>1
  <2> QED
    BY <1>2, <1>4, <2>1, <2>2 DEF SInv, TypeOK, Filled
<1>6. /\ pc'[Main] # "main" => \A d \in Cores \ {Main} : pc'[d] = "off"
      /\ pc'[Main] # "off"
  BY <1>2 DEF SInv, TypeOK
<1>7. ASSUME NEW d \in Spared, pc'[d] \in {"bss", "main"}, NEW b \in Own[d]
      PROVE  mem'[b] = d
  <2>1. d \in Cores /\ b \in Blocks
    BY OwnAssumption DEF Spared
  <2>2. CASE d = c
    BY <1>1, <2>1, <2>2
  <2>3. CASE d # c
    <3>1. pc[d] = pc'[d] /\ mem[b] = d
      BY <1>2, <1>7, <2>1, <2>3 DEF SInv, TypeOK
    <3>2. c # Main
      BY <1>2, <1>7, <2>1, <2>3, <3>1 DEF SInv
    <3>3. b \notin Own[c]
      BY <2>1, <2>3, <1>7, OwnAssumption
    <3>4. b \notin Copied(c)
      BY <2>3, <3>2, <1>7 DEF Spared
    <3> QED
      BY <1>1, <2>1, <3>1, <3>3, <3>4
  <2> QED
    BY <2>2, <2>3
<1>8. ASSUME NEW b \in Shared PROVE mem'[b] \notin Cores
  <2>1. b \in Blocks /\ b \notin Own[c]
    BY SharedAssumption
  <2>2. b \notin Copied(c)
    BY CopiedInReach DEF SInv, TypeOK
  <2> QED
    BY <1>1, <2>1, <2>2 DEF SInv
<1>9. Spared' = Spared
  BY <1>2, SparedStays
<1> QED
  BY <1>3, <1>5, <1>6, <1>7, <1>8, <1>9 DEF SInv, Filled

LEMMA SInvStep == SInv /\ [Next]_vars => SInv'
<1> SUFFICES ASSUME SInv, [Next]_vars PROVE SInv'
  OBVIOUS
<1>1. ASSUME NEW c \in Cores, bss_Init(c) PROVE SInv'
  <2>1. mem' = mem /\ next' = next /\ size' = size /\ pc[c] = "bss" /\ pc' = [pc EXCEPT ![c] = "main"]
    BY <1>1 DEF bss_Init
  <2>2. TypeOK'
    BY <1>1, <2>1 DEF bss_Init, SInv, TypeOK
  <2> QED
    BY <2>1, <2>2, SparedStays, CoresAssumption DEF SInv, TypeOK, Filled
<1>2. CASE turn_on_cores
  <2>1. mem' = mem /\ next' = next /\ size' = size /\ pc[Main] = "main"
        /\ pc' = [c \in Cores |-> IF pc[c] = "off" THEN "fill" ELSE pc[c]]
    BY <1>2 DEF turn_on_cores
  <2>2. TypeOK'
    BY <1>2, <2>1 DEF turn_on_cores, SInv, TypeOK
  <2>3. ASSUME NEW c \in Cores, pc[c] = "off"
        PROVE  FillFirst[c] .. next[c] - 1 = {}
    BY <2>3, RangeAssumption DEF SInv
  <2>4. \A c \in Cores :
          /\ pc'[c] # "off"
          /\ pc'[c] = "fill" => pc[c] \in {"off", "fill"}
          /\ pc'[c] \in {"copy", "bss", "main"} => pc[c] = pc'[c]
    BY <2>1 DEF SInv, TypeOK
  <2>5. pc'[Main] = "main"
    BY <2>1, CoresAssumption
  <2>6. Spared' = Spared
    BY <2>1, SparedStays
  <2>7. \A c \in Cores : pc'[c] = "fill" =>
          \A b \in FillFirst[c] .. next'[c] - 1 : mem'[b] # "raw"
    BY <2>1, <2>3, <2>4 DEF SInv
  <2>8. \A c \in Spared : pc'[c] \in {"bss", "main"} => \A b \in Own[c] : mem'[b] = c
    BY <2>1, <2>4 DEF SInv, Spared
  <2> QED
    BY <2>1, <2>2, <2>4, <2>5, <2>6, <2>7, <2>8, CoresAssumption DEF SInv, Filled
<1>3. CASE LeaveCoresOff \/ UNCHANGED vars
  <2>1. UNCHANGED <<pc, next, mem, size>> /\ TypeOK'
    BY <1>3 DEF LeaveCoresOff, vars, SInv, TypeOK
  <2> QED
    BY <2>1, SparedStays DEF SInv, Filled
<1> QED
  BY <1>1, <1>2, <1>3, FillStep, CopyStep DEF Next, Start

(* What a fill has passed is valid, and spared cores keep their data.      *)
THEOREM StartupInvariance == Spec => []SInv
BY SInvInit, SInvStep, PTL DEF Spec

(* No core uses memory whose ECC is not valid.                             *)
THEOREM EccBeforeUseHolds == Spec => []EccBeforeUse
<1>1. SInv => EccBeforeUse
  BY CoresAssumption, OwnAssumption, SharedAssumption, CopiedInReach
     DEF SInv, TypeOK, EccBeforeUse, Filled
<1> QED
  BY <1>1, StartupInvariance, PTL

(* With any linker scripts: a core whose data no other core but the first  *)
(* fills keeps it.                                                         *)
THEOREM DataKeptHolds == Spec => []DataKept
<1>1. SInv => DataKept
  BY DEF SInv, DataKept
<1> QED
  BY <1>1, StartupInvariance, PTL

-----------------------------------------------------------------------------
(* The boot of the chip is a start-up of its cores: what is proved above   *)
(* holds with the clocks and the prompt added.                             *)

LEMMA BootStep == [BootNext]_bootVars => [Next]_vars
<1> SUFFICES ASSUME [BootNext]_bootVars PROVE [Next]_vars
  OBVIOUS
<1>1. CASE platform_init \/ ModeEntered \/ UNCHANGED bootVars
  BY <1>1 DEF platform_init, ModeEntered, bootVars
<1>2. CASE Prompt
  BY <1>2 DEF Prompt, Next
<1>3. ASSUME NEW c \in Cores, StartCore(c) PROVE Next
  BY <1>3 DEF StartCore, Next
<1> QED
  BY <1>1, <1>2, <1>3 DEF BootNext

(* Every boot is a start-up: setting the clocks and entering modes leaves  *)
(* the cores and the memory to the steps of CoreStartup.                   *)
THEOREM BootIsStartup == BootSpec => Spec
<1>1. BootInit => Init
  BY DEF BootInit
<1> QED
  BY <1>1, BootStep, PTL DEF BootSpec, Spec

(* No core uses memory whose ECC is not valid, whichever clock is set up.  *)
THEOREM BootEccBeforeUse == BootSpec => []EccBeforeUse
BY BootIsStartup, EccBeforeUseHolds, PTL

(* Spared cores keep their data and the shared section is no core's data.  *)
THEOREM BootDataKept == BootSpec => []DataKept
BY BootIsStartup, DataKeptHolds, PTL

-----------------------------------------------------------------------------
(* The clock: how far the writes have come when a transition may end.      *)

SetupNames == {"system16mhz", "system40mhz", "system160mhz"}
ModeNames == {"DRUN", "RUN1"}

DividerValues == [Clocks!Dividers -> [div : Nat, de : BOOLEAN]]
ModeClocks == [ModeNames -> {"FIRC", "XOSC", "PLL"}]
ModeKeys == [mode : ModeNames, key : {"none", "5AF0", "A50F"}]

ClockTypeOK ==
  /\ setup \in SetupNames /\ xosc \in 1 .. 40 /\ step \in 1 .. 12
  /\ reg \in [dc : DividerValues, RFDPHI : Nat, mc : ModeClocks, MCTL : ModeKeys]
  /\ mtrans \in BOOLEAN /\ sysclk \in {"FIRC", "XOSC", "PLL"}

(* After all seven writes of SetDividers. *)
DividersSet ==
  /\ reg.dc["DC1"] = reg.dc["DC5"]
  /\ reg.dc["DC2"] = [div |-> 3, de |-> TRUE]
  /\ setup # "system16mhz" => reg.dc["DC1"].div = 1

(* What the modes select once they are configured. *)
ModesSet ==
  IF setup = "system16mhz"
  THEN reg.mc["DRUN"] = "XOSC" /\ reg.mc["RUN1"] = "XOSC"
  ELSE /\ reg.mc["DRUN"] = "PLL" /\ reg.mc["RUN1"] = "FIRC"
       /\ reg.RFDPHI = IF setup = "system40mhz" THEN 3 ELSE 1

ClockInv ==
  /\ ClockTypeOK
  /\ step > 3 /\ setup # "system16mhz" => reg.dc["DC1"].div = 1
  /\ step > 5 => reg.dc["DC1"] = reg.dc["DC5"]
  /\ step > 6 => reg.dc["DC2"].div = 3
  /\ step > 7 => DividersSet
  /\ step > 8 => IF setup = "system16mhz"
                 THEN reg.mc["DRUN"] = "XOSC"
                 ELSE reg.RFDPHI = IF setup = "system40mhz" THEN 3 ELSE 1
  /\ setup # "system16mhz" => reg.mc["RUN1"] = "FIRC"
  /\ step > 9 => ModesSet
  /\ step < 11 => reg.MCTL.key = "none"
  /\ step = 11 => reg.MCTL = [mode |-> IF setup = "system16mhz" THEN "RUN1" ELSE "DRUN", key |-> "5AF0"]
  /\ step < 12 => sysclk = "FIRC" /\ ~mtrans
  /\ sysclk # "FIRC" => sysclk = IF setup = "system16mhz" THEN "XOSC" ELSE "PLL"
  /\ step = 12 /\ ~mtrans /\ setup = "system16mhz" => sysclk = "XOSC"

(* The writes, one by one: seven for the dividers, and four for the switch. *)
LEMMA Joined ==
  ASSUME NEW a1, NEW a2, NEW a3, NEW a4, NEW a5, NEW a6, NEW a7,
         NEW b1, NEW b2, NEW b3, NEW b4,
         NEW p, p = <<a1, a2, a3, a4, a5, a6, a7>> \o <<b1, b2, b3, b4>>
  PROVE  /\ Len(p) = 11
         /\ p[1] = a1 /\ p[2] = a2 /\ p[3] = a3 /\ p[4] = a4
         /\ p[5] = a5 /\ p[6] = a6 /\ p[7] = a7
         /\ p[8] = b1 /\ p[9] = b2 /\ p[10] = b3 /\ p[11] = b4
OBVIOUS

LEMMA Writes ==
  ASSUME setup \in SetupNames
  PROVE  LET fast == setup # "system16mhz"
             clk == IF fast THEN "PLL" ELSE "XOSC"
             target == IF fast THEN "DRUN" ELSE "RUN1"
             p == Clocks!Program
         IN  /\ Len(p) = 11
             /\ p[1] = Clocks!Div("DC0", 0) /\ p[2] = Clocks!Enable("DC0", fast)
             /\ p[3] = Clocks!Div("DC1", IF fast THEN 1 ELSE 0) /\ p[4] = Clocks!Enable("DC1", fast)
             /\ p[5] = [reg EXCEPT !.dc["DC5"] = reg.dc["DC1"]]
             /\ p[6] = Clocks!Div("DC2", 3) /\ p[7] = Clocks!Enable("DC2", TRUE)
             /\ p[8] = IF fast THEN [reg EXCEPT !.RFDPHI = IF setup = "system40mhz" THEN 3 ELSE 1]
                               ELSE Clocks!Mode("DRUN", "XOSC")
             /\ p[9] = Clocks!Mode(IF fast THEN "DRUN" ELSE "RUN1", clk)
             /\ p[10] = Clocks!Key(target, "5AF0") /\ p[11] = Clocks!Key(target, "A50F")
<1>1. CASE setup = "system16mhz"
  <2>1. Clocks!Switch = Clocks!XTAL_16MHz
    BY <1>1 DEF Clocks!Switch
  <2> QED
    BY <1>1, <2>1, Joined DEF Clocks!Program, Clocks!SetDividers, Clocks!XTAL_16MHz
<1>2. CASE setup # "system16mhz"
  <2>1. Clocks!Switch = Clocks!PLL(IF setup = "system40mhz" THEN 3 ELSE 1)
    BY <1>2 DEF Clocks!Switch, SetupNames
  <2> QED
    BY <1>2, <2>1, Joined DEF Clocks!Program, Clocks!SetDividers, Clocks!PLL
<1> QED
  BY <1>1, <1>2

LEMMA ElevenWrites == setup \in SetupNames => Len(Clocks!Program) = 11
  BY Writes

LEMMA ClockInit == BootInit => ClockInv
<1> SUFFICES ASSUME BootInit PROVE ClockInv
  OBVIOUS
<1>1. ClockTypeOK
  <2>1. setup \in SetupNames /\ xosc \in 1 .. 40 /\ step \in 1 .. 12
    BY SetupsAssumption, CrystalsAssumption DEF BootInit, Clocks!Init, SetupNames
  <2>2. [d \in Clocks!Dividers |-> ResetDivider] \in DividerValues
    BY DividerAssumption DEF DividerValues
  <2>3. [mode \in ModeNames |-> "FIRC"] \in ModeClocks
    BY DEF ModeClocks
  <2>4. [mode |-> "DRUN", key |-> "none"] \in ModeKeys
    BY DEF ModeNames, ModeKeys
  <2>5. reg = [dc |-> [d \in Clocks!Dividers |-> ResetDivider], RFDPHI |-> 0,
               mc |-> [mode \in ModeNames |-> "FIRC"],
               MCTL |-> [mode |-> "DRUN", key |-> "none"]]
    BY DEF BootInit, Clocks!Init, ModeNames
  <2>6. reg \in [dc : DividerValues, RFDPHI : Nat, mc : ModeClocks, MCTL : ModeKeys]
    BY <2>2, <2>3, <2>4, <2>5
  <2> QED
    BY <2>1, <2>6 DEF BootInit, Clocks!Init, ClockTypeOK
<1> QED
  BY <1>1 DEF BootInit, Clocks!Init, ClockInv, ModeNames

(* What the writes to the clock registers change.                          *)
LEMMA RegisterWrites ==
  ASSUME ClockTypeOK, NEW r
  PROVE  /\ \A d \in Clocks!Dividers, n \in Nat : r = Clocks!Div(d, n) =>
              /\ r = [reg EXCEPT !.dc = r.dc]
              /\ r.dc = [reg.dc EXCEPT ![d] = [div |-> n, de |-> reg.dc[d].de]]
         /\ \A d \in Clocks!Dividers, on \in BOOLEAN : r = Clocks!Enable(d, on) =>
              /\ r = [reg EXCEPT !.dc = r.dc]
              /\ r.dc = [reg.dc EXCEPT ![d] = [div |-> reg.dc[d].div, de |-> on]]
         /\ r = [reg EXCEPT !.dc["DC5"] = reg.dc["DC1"]] =>
              /\ r = [reg EXCEPT !.dc = r.dc]
              /\ r.dc = [reg.dc EXCEPT !["DC5"] = reg.dc["DC1"]]
         /\ \A mode \in ModeNames : \A clk : r = Clocks!Mode(mode, clk) =>
              /\ r = [reg EXCEPT !.mc = r.mc]
              /\ r.mc = [reg.mc EXCEPT ![mode] = clk]
         /\ \A mode, key : r = Clocks!Key(mode, key) =>
              r = [reg EXCEPT !.MCTL = [mode |-> mode, key |-> key]]
<1>1. ASSUME NEW d \in Clocks!Dividers, NEW n \in Nat, r = Clocks!Div(d, n)
      PROVE  /\ r = [reg EXCEPT !.dc = r.dc]
             /\ r.dc = [reg.dc EXCEPT ![d] = [div |-> n, de |-> reg.dc[d].de]]
  BY <1>1 DEF ClockTypeOK, DividerValues, Clocks!Div
<1>2. ASSUME NEW d \in Clocks!Dividers, NEW on \in BOOLEAN, r = Clocks!Enable(d, on)
      PROVE  /\ r = [reg EXCEPT !.dc = r.dc]
             /\ r.dc = [reg.dc EXCEPT ![d] = [div |-> reg.dc[d].div, de |-> on]]
  BY <1>2 DEF ClockTypeOK, DividerValues, Clocks!Enable
<1>3. ASSUME NEW mode \in ModeNames, NEW clk, r = Clocks!Mode(mode, clk)
      PROVE  /\ r = [reg EXCEPT !.mc = r.mc]
             /\ r.mc = [reg.mc EXCEPT ![mode] = clk]
  BY <1>3 DEF ClockTypeOK, ModeClocks, Clocks!Mode
<1>4. ASSUME NEW mode, NEW key, r = Clocks!Key(mode, key)
      PROVE  r = [reg EXCEPT !.MCTL = [mode |-> mode, key |-> key]]
  BY <1>4 DEF Clocks!Key
<1>5. ASSUME r = [reg EXCEPT !.dc["DC5"] = reg.dc["DC1"]]
      PROVE  /\ r = [reg EXCEPT !.dc = r.dc]
             /\ r.dc = [reg.dc EXCEPT !["DC5"] = reg.dc["DC1"]]
  BY <1>5 DEF ClockTypeOK, DividerValues
<1> QED
  BY <1>1, <1>2, <1>3, <1>4, <1>5

(* Each of the writes touches one part of the registers.                   *)
LEMMA OnePart ==
  ASSUME ClockTypeOK, NEW r
  PROVE  /\ r = [reg EXCEPT !.dc = r.dc] =>
              r.RFDPHI = reg.RFDPHI /\ r.mc = reg.mc /\ r.MCTL = reg.MCTL
         /\ r = [reg EXCEPT !.mc = r.mc] =>
              r.RFDPHI = reg.RFDPHI /\ r.dc = reg.dc /\ r.MCTL = reg.MCTL
         /\ \A k : r = [reg EXCEPT !.MCTL = k] =>
              r.RFDPHI = reg.RFDPHI /\ r.mc = reg.mc /\ r.dc = reg.dc /\ r.MCTL = k
         /\ \A n : r = [reg EXCEPT !.RFDPHI = n] =>
              r.RFDPHI = n /\ r.mc = reg.mc /\ r.dc = reg.dc /\ r.MCTL = reg.MCTL
BY DEF ClockTypeOK

LEMMA DividerWriteStep ==
  ASSUME ClockInv, Clocks!Write, step \in 1 .. 7
  PROVE  ClockInv'
<1> DEFINE fast == setup # "system16mhz"
<1> USE DEF Clocks!Dividers
<1>1. ClockTypeOK /\ setup \in SetupNames
  BY DEF ClockInv, ClockTypeOK
<1>2. /\ step' = step + 1 /\ reg' = Clocks!Program[step]
      /\ setup' = setup /\ xosc' = xosc /\ sysclk' = sysclk
      /\ mtrans' = (mtrans \/ Clocks!Started(reg, reg'))
  BY DEF Clocks!Write
<1>3. /\ reg' = [reg EXCEPT !.dc = reg'.dc]
      /\ reg'.dc \in DividerValues
      /\ step = 3 /\ fast => reg'.dc["DC1"].div = 1
      /\ step > 3 => reg'.dc["DC1"].div = reg.dc["DC1"].div
      /\ step = 5 => reg'.dc["DC1"] = reg'.dc["DC5"]
      /\ step > 5 => reg'.dc["DC1"] = reg.dc["DC1"] /\ reg'.dc["DC5"] = reg.dc["DC5"]
      /\ step = 6 => reg'.dc["DC2"].div = 3
      /\ step = 7 => reg'.dc["DC2"] = [div |-> reg.dc["DC2"].div, de |-> TRUE]
  <2>0. /\ reg.dc \in DividerValues
        /\ \A d \in Clocks!Dividers : reg.dc[d] \in [div : Nat, de : BOOLEAN]
    BY <1>1 DEF ClockTypeOK, DividerValues
  <2>1. CASE step = 1
    <3>1. reg' = Clocks!Div("DC0", 0)
      BY <1>1, <1>2, <2>1, Writes
    <3>2. /\ reg' = [reg EXCEPT !.dc = reg'.dc]
          /\ reg'.dc = [reg.dc EXCEPT !["DC0"] = [div |-> 0, de |-> reg.dc["DC0"].de]]
      BY <1>1, <3>1, RegisterWrites
    <3>3. [div |-> 0, de |-> reg.dc["DC0"].de] \in [div : Nat, de : BOOLEAN]
      BY <2>0
    <3> QED
      BY <2>0, <2>1, <3>2, <3>3 DEF DividerValues
  <2>2. CASE step = 2
    <3>1. reg' = Clocks!Enable("DC0", fast)
      BY <1>1, <1>2, <2>2, Writes
    <3>2. /\ reg' = [reg EXCEPT !.dc = reg'.dc]
          /\ reg'.dc = [reg.dc EXCEPT !["DC0"] = [div |-> reg.dc["DC0"].div, de |-> fast]]
      BY <1>1, <3>1, RegisterWrites
    <3>3. [div |-> reg.dc["DC0"].div, de |-> fast] \in [div : Nat, de : BOOLEAN]
      BY <2>0
    <3> QED
      BY <2>0, <2>2, <3>2, <3>3 DEF DividerValues
  <2>3. CASE step = 3
    <3> DEFINE n == IF fast THEN 1 ELSE 0
    <3>0. n \in Nat /\ (fast => n = 1)
      OBVIOUS
    <3>1. reg' = Clocks!Div("DC1", n)
      BY <1>1, <1>2, <2>3, Writes
    <3> HIDE DEF n
    <3>2. /\ reg' = [reg EXCEPT !.dc = reg'.dc]
          /\ reg'.dc = [reg.dc EXCEPT !["DC1"] = [div |-> n, de |-> reg.dc["DC1"].de]]
      BY <1>1, <3>0, <3>1, RegisterWrites
    <3>3. [div |-> n, de |-> reg.dc["DC1"].de] \in [div : Nat, de : BOOLEAN]
      BY <2>0, <3>0
    <3> QED
      BY <2>0, <2>3, <3>0, <3>2, <3>3 DEF DividerValues
  <2>4. CASE step = 4
    <3>1. reg' = Clocks!Enable("DC1", fast)
      BY <1>1, <1>2, <2>4, Writes
    <3>2. /\ reg' = [reg EXCEPT !.dc = reg'.dc]
          /\ reg'.dc = [reg.dc EXCEPT !["DC1"] = [div |-> reg.dc["DC1"].div, de |-> fast]]
      BY <1>1, <3>1, RegisterWrites
    <3>3. [div |-> reg.dc["DC1"].div, de |-> fast] \in [div : Nat, de : BOOLEAN]
      BY <2>0
    <3> QED
      BY <2>0, <2>4, <3>2, <3>3 DEF DividerValues
  <2>5. CASE step = 5
    <3>1. reg' = [reg EXCEPT !.dc["DC5"] = reg.dc["DC1"]]
      BY <1>1, <1>2, <2>5, Writes
    <3>2. /\ reg' = [reg EXCEPT !.dc = reg'.dc]
          /\ reg'.dc = [reg.dc EXCEPT !["DC5"] = reg.dc["DC1"]]
      BY <1>1, <3>1, RegisterWrites
    <3>3. reg.dc["DC1"] \in [div : Nat, de : BOOLEAN]
      BY <2>0
    <3> QED
      BY <2>0, <2>5, <3>2, <3>3 DEF DividerValues
  <2>6. CASE step = 6
    <3>1. reg' = Clocks!Div("DC2", 3)
      BY <1>1, <1>2, <2>6, Writes
    <3>2. /\ reg' = [reg EXCEPT !.dc = reg'.dc]
          /\ reg'.dc = [reg.dc EXCEPT !["DC2"] = [div |-> 3, de |-> reg.dc["DC2"].de]]
      BY <1>1, <3>1, RegisterWrites
    <3>3. [div |-> 3, de |-> reg.dc["DC2"].de] \in [div : Nat, de : BOOLEAN]
      BY <2>0
    <3> QED
      BY <2>0, <2>6, <3>2, <3>3 DEF DividerValues
  <2>7. CASE step = 7
    <3>1. reg' = Clocks!Enable("DC2", TRUE)
      BY <1>1, <1>2, <2>7, Writes
    <3>2. /\ reg' = [reg EXCEPT !.dc = reg'.dc]
          /\ reg'.dc = [reg.dc EXCEPT !["DC2"] = [div |-> reg.dc["DC2"].div, de |-> TRUE]]
      BY <1>1, <3>1, RegisterWrites
    <3>3. [div |-> reg.dc["DC2"].div, de |-> TRUE] \in [div : Nat, de : BOOLEAN]
      BY <2>0
    <3> QED
      BY <2>0, <2>7, <3>2, <3>3 DEF DividerValues
  <2> QED
    BY <2>1, <2>2, <2>3, <2>4, <2>5, <2>6, <2>7
<1>4. reg'.RFDPHI = reg.RFDPHI /\ reg'.mc = reg.mc /\ reg'.MCTL = reg.MCTL
  BY <1>1, <1>3, OnePart
<1>6. ~Clocks!Started(reg, reg')
  BY DEF ClockInv, Clocks!Started
<1>7. ClockTypeOK'
  <2>1. reg' \in [dc : DividerValues, RFDPHI : Nat, mc : ModeClocks, MCTL : ModeKeys]
    BY <1>1, <1>3 DEF ClockTypeOK
  <2> QED
    BY <1>1, <1>2, <1>6, <2>1 DEF ClockTypeOK
<1>8. /\ step' > 3 /\ setup' # "system16mhz" => reg'.dc["DC1"].div = 1
      /\ step' > 5 => reg'.dc["DC1"] = reg'.dc["DC5"]
      /\ step' > 6 => reg'.dc["DC2"].div = 3
  BY <1>2, <1>3 DEF ClockInv
<1>9. step' > 7 => DividersSet'
  <2>1. SUFFICES ASSUME step' > 7 PROVE DividersSet'
    OBVIOUS
  <2>2. step = 7
    BY <1>2, <2>1
  <2>3. reg.dc["DC2"].div = 3
    BY <2>2 DEF ClockInv
  <2> QED
    BY <1>2, <1>3, <1>8, <2>2, <2>3 DEF DividersSet
<1>10. step' \in 2 .. 8 /\ sysclk' = "FIRC" /\ ~mtrans'
  <2>1. step' \in 2 .. 8
    BY <1>2
  <2>2. sysclk = "FIRC" /\ ~mtrans
    BY DEF ClockInv
  <2> QED
    BY <1>2, <1>6, <2>1, <2>2
<1>11. reg'.MCTL.key = "none" /\ (setup' # "system16mhz" => reg'.mc["RUN1"] = "FIRC")
  BY <1>2, <1>4 DEF ClockInv
<1> QED
  BY <1>7, <1>8, <1>9, <1>10, <1>11 DEF ClockInv

LEMMA SwitchWriteStep ==
  ASSUME ClockInv, Clocks!Write, step \in 8 .. 11
  PROVE  ClockInv'
<1> DEFINE fast == setup # "system16mhz"
<1> DEFINE n == IF setup = "system40mhz" THEN 3 ELSE 1
<1> DEFINE target == IF fast THEN "DRUN" ELSE "RUN1"
<1>1. /\ ClockTypeOK /\ setup \in SetupNames /\ DividersSet /\ sysclk = "FIRC" /\ ~mtrans
      /\ n \in Nat /\ target \in ModeNames
  BY DEF ClockInv, ClockTypeOK, ModeNames
<1>2. /\ step' = step + 1 /\ reg' = Clocks!Program[step]
      /\ setup' = setup /\ xosc' = xosc /\ sysclk' = sysclk
      /\ mtrans' = (mtrans \/ Clocks!Started(reg, reg'))
  BY DEF Clocks!Write
<1>3. CASE step = 8
  <2>1. CASE fast
    <3>1. reg' = [reg EXCEPT !.RFDPHI = n]
      BY <1>1, <1>2, <1>3, <2>1, Writes
    <3> HIDE DEF n
    <3>2. reg'.RFDPHI = n /\ reg'.mc = reg.mc /\ reg'.dc = reg.dc /\ reg'.MCTL = reg.MCTL
      BY <1>1, <3>1, OnePart
    <3>3. ClockTypeOK' /\ ~mtrans'
      BY <1>1, <1>2, <1>3, <3>1, <3>2 DEF ClockInv, ClockTypeOK, Clocks!Started
    <3> QED
      BY <1>1, <1>2, <1>3, <2>1, <3>2, <3>3 DEF ClockInv, DividersSet, n
  <2>2. CASE ~fast
    <3>1. reg' = Clocks!Mode("DRUN", "XOSC")
      BY <1>1, <1>2, <1>3, <2>2, Writes
    <3>2. reg' = [reg EXCEPT !.mc = reg'.mc] /\ reg'.mc = [reg.mc EXCEPT !["DRUN"] = "XOSC"]
      BY <1>1, <3>1, RegisterWrites DEF ModeNames
    <3>3. reg'.RFDPHI = reg.RFDPHI /\ reg'.dc = reg.dc /\ reg'.MCTL = reg.MCTL
      BY <1>1, <3>2, OnePart
    <3>4. reg'.mc \in ModeClocks /\ reg'.mc["DRUN"] = "XOSC"
      BY <1>1, <3>2 DEF ClockTypeOK, ModeClocks, ModeNames
    <3>5. ClockTypeOK' /\ ~mtrans'
      BY <1>1, <1>2, <1>3, <3>2, <3>3, <3>4 DEF ClockInv, ClockTypeOK, Clocks!Started
    <3> QED
      BY <1>1, <1>2, <1>3, <2>2, <3>3, <3>4, <3>5 DEF ClockInv, DividersSet
  <2> QED
    BY <2>1, <2>2
<1>4. CASE step = 9
  <2> DEFINE clk == IF fast THEN "PLL" ELSE "XOSC"
  <2>1. reg' = Clocks!Mode(target, clk) /\ clk \in {"FIRC", "XOSC", "PLL"}
    BY <1>1, <1>2, <1>4, Writes
  <2> HIDE DEF target, clk
  <2>2. reg' = [reg EXCEPT !.mc = reg'.mc] /\ reg'.mc = [reg.mc EXCEPT ![target] = clk]
    BY <1>1, <2>1, RegisterWrites
  <2>3. reg'.RFDPHI = reg.RFDPHI /\ reg'.dc = reg.dc /\ reg'.MCTL = reg.MCTL
    BY <1>1, <2>2, OnePart
  <2>4. /\ reg'.mc \in ModeClocks /\ reg'.mc[target] = clk
        /\ \A mode \in ModeNames \ {target} : reg'.mc[mode] = reg.mc[mode]
    BY <1>1, <2>1, <2>2 DEF ClockTypeOK, ModeClocks
  <2>5. ClockTypeOK' /\ ~mtrans'
    BY <1>1, <1>2, <1>4, <2>2, <2>3, <2>4 DEF ClockInv, ClockTypeOK, Clocks!Started
  <2>6. ModesSet' /\ DividersSet'
    BY <1>1, <1>2, <1>4, <2>3, <2>4 DEF ClockInv, ModesSet, DividersSet, ModeNames, target, clk
  <2> QED
    BY <1>1, <1>2, <1>4, <2>3, <2>5, <2>6 DEF ClockInv, ModesSet, DividersSet
<1>5. CASE step \in 10 .. 11
  <2> DEFINE k == [mode |-> target, key |-> IF step = 10 THEN "5AF0" ELSE "A50F"]
  <2>1. reg' = [reg EXCEPT !.MCTL = k]
    BY <1>1, <1>2, <1>5, Writes, RegisterWrites
  <2>2. k \in ModeKeys
    BY <1>1 DEF ModeKeys
  <2> HIDE DEF k
  <2>3. reg'.RFDPHI = reg.RFDPHI /\ reg'.mc = reg.mc /\ reg'.dc = reg.dc /\ reg'.MCTL = k
    BY <1>1, <2>1, OnePart
  <2>4. reg' \in [dc : DividerValues, RFDPHI : Nat, mc : ModeClocks, MCTL : ModeKeys]
    BY <1>1, <2>1, <2>2 DEF ClockTypeOK
  <2>5. ClockTypeOK'
    BY <1>1, <1>2, <1>5, <2>4 DEF ClockTypeOK, Clocks!Started
  <2>6. ModesSet' /\ DividersSet'
    BY <1>1, <1>2, <1>5, <2>3 DEF ClockInv, ModesSet, DividersSet
  <2>7. step = 10 => ~mtrans'
    <3>1. step = 10 => ~Clocks!Started(reg, reg')
      BY DEF ClockInv, Clocks!Started
    <3> QED
      BY <1>1, <1>2, <3>1
  <2>8. step = 11 => mtrans'
    <3>1. SUFFICES ASSUME step = 11 PROVE Clocks!Started(reg, reg')
      BY <1>2
    <3>2. reg.MCTL.key = "5AF0" /\ reg.MCTL.mode = target
      BY <3>1 DEF ClockInv
    <3> QED
      BY <2>3, <3>1, <3>2 DEF k, Clocks!Started
  <2>9. step = 10 => reg'.MCTL = [mode |-> IF setup' = "system16mhz" THEN "RUN1" ELSE "DRUN", key |-> "5AF0"]
    BY <1>2, <2>3 DEF k
  <2> QED
    BY <1>1, <1>2, <1>5, <2>5, <2>6, <2>7, <2>8, <2>9 DEF ClockInv, ModesSet, DividersSet
<1> QED
  BY <1>3, <1>4, <1>5

LEMMA ClockStep == ClockInv /\ [BootNext]_bootVars => ClockInv'
<1> SUFFICES ASSUME ClockInv, [BootNext]_bootVars PROVE ClockInv'
  OBVIOUS
<1>1. ClockTypeOK /\ setup \in SetupNames
  BY DEF ClockInv, ClockTypeOK
<1>2. CASE UNCHANGED clock
  <2>1. UNCHANGED <<setup, xosc, step, reg, mtrans, sysclk>>
    BY <1>2 DEF clock
  <2> QED
    BY <2>1 DEF ClockInv, ClockTypeOK, DividersSet, ModesSet
<1>3. CASE platform_init
  <2>0. Len(Clocks!Program) = 11
    BY <1>1, ElevenWrites
  <2>1. Clocks!Write /\ step \in 1 .. 11
    BY <1>1, <1>3, <2>0 DEF platform_init, Clocks!Write, ClockTypeOK
  <2> QED
    BY <2>1, DividerWriteStep, SwitchWriteStep
<1>4. CASE ModeEntered
  <2>1. /\ mtrans /\ mtrans' = FALSE /\ sysclk' = reg.mc[reg.MCTL.mode]
        /\ UNCHANGED <<setup, xosc, step, reg>>
    BY <1>4 DEF ModeEntered, Clocks!Transition
  <2>2. step = 12 /\ ModesSet /\ DividersSet /\ reg.MCTL.mode \in ModeNames
    BY <1>1, <2>1 DEF ClockInv, ClockTypeOK, ModeKeys
  <2>3. /\ setup = "system16mhz" => sysclk' = "XOSC"
        /\ setup # "system16mhz" => sysclk' \in {"PLL", "FIRC"}
    BY <2>1, <2>2 DEF ModesSet, ModeNames
  <2> QED
    BY <2>1, <2>2, <2>3 DEF ClockInv, ClockTypeOK, DividersSet, ModesSet
<1>5. CASE Prompt /\ Clocks!Reenter
  <2>0. Len(Clocks!Program) = 11
    BY <1>1, ElevenWrites
  <2>1. step = 12 /\ ~mtrans
    BY <1>1, <1>5, <2>0 DEF Prompt, Clocks!Done, ClockTypeOK
  <2>2. reg' = [reg EXCEPT !.MCTL = [mode |-> "RUN1", key |-> "A50F"]]
        /\ mtrans' = TRUE /\ UNCHANGED <<setup, xosc, step, sysclk>>
    BY <1>1, <1>5, RegisterWrites DEF Clocks!Reenter
  <2>3. reg'.RFDPHI = reg.RFDPHI /\ reg'.mc = reg.mc /\ reg'.dc = reg.dc
    BY <1>1, <2>2, OnePart
  <2>4. [mode |-> "RUN1", key |-> "A50F"] \in ModeKeys
    BY DEF ModeKeys, ModeNames
  <2>5. ClockTypeOK'
    BY <1>1, <2>2, <2>4 DEF ClockTypeOK
  <2> QED
    BY <2>1, <2>2, <2>3, <2>5 DEF ClockInv, DividersSet, ModesSet
<1> QED
  BY <1>2, <1>3, <1>4, <1>5 DEF BootNext, StartCore, Prompt, bootVars, clock

(* How far the writes of a clock set-up have come, what they have set, and *)
(* that the system clock is still that of reset until the last of them.    *)
THEOREM ClockInvariance == BootSpec => []ClockInv
BY ClockInit, ClockStep, PTL DEF BootSpec

(* No clock domain is overclocked, by any of the set-ups, in any order of  *)
(* the writes and the mode transitions, with any crystal up to 40 MHz.     *)
THEOREM DomainsInRangeHolds == BootSpec => []DomainsInRange
<1>1. ClockInv => DomainsInRange
  <2> SUFFICES ASSUME ClockInv PROVE DomainsInRange
    OBVIOUS
  <2>1. /\ ClockTypeOK /\ setup \in SetupNames /\ xosc \in 1 .. 40
        /\ \A d \in Clocks!Dividers : reg.dc[d].div \in Nat
    BY DEF ClockInv, ClockTypeOK, DividerValues
  <2>2. sysclk # "FIRC" => step = 12 /\ DividersSet /\ ModesSet
    BY <2>1 DEF ClockInv, ClockTypeOK
  <2>3. ASSUME NEW d \in Clocks!Dividers
        PROVE  Clocks!MHz <= Clocks!Limit[d] * (reg.dc[d].div + 1)
    <3> DEFINE n == reg.dc[d].div
    <3>1. /\ Clocks!Limit[d] = IF d = "DC0" THEN 160 ELSE IF d = "DC2" THEN 40 ELSE 80
          /\ n \in Nat
          /\ sysclk = "PLL" /\ d = "DC2" => n = 3
          /\ sysclk = "PLL" /\ d \in {"DC1", "DC5"} => n = 1
      <4>1. Clocks!Limit[d] = IF d = "DC0" THEN 160 ELSE IF d = "DC2" THEN 40 ELSE 80
        BY <2>3 DEF Clocks!Limit, Clocks!Dividers
      <4>2. sysclk = "PLL" => DividersSet /\ setup # "system16mhz"
        BY <2>2 DEF ClockInv
      <4> QED
        BY <2>1, <4>1, <4>2 DEF DividersSet
    <3> HIDE DEF n
    <3>2. CASE sysclk # "PLL"
      <4>1. Clocks!MHz \in Int /\ Clocks!MHz <= 40
        BY <2>1, <3>2 DEF Clocks!MHz, ClockTypeOK
      <4>2. 40 <= 40 * (n + 1) /\ 40 <= 80 * (n + 1) /\ 40 <= 160 * (n + 1)
        BY <3>1
      <4> QED
        BY <3>1, <4>1, <4>2 DEF n
    <3>3. CASE sysclk = "PLL"
      <4>1. Clocks!MHz = IF setup = "system40mhz" THEN (xosc * 16) \div 16 ELSE (xosc * 16) \div 4
        <5>1. 2^(3 + 1) = 16 /\ 2^(1 + 1) = 4
          OBVIOUS
        <5>2. reg.RFDPHI = IF setup = "system40mhz" THEN 3 ELSE 1
          BY <2>2, <3>3 DEF ClockInv, ModesSet
        <5> QED
          BY <3>3, <5>1, <5>2 DEF Clocks!MHz
      <4>2. Clocks!MHz \in Int /\ Clocks!MHz <= 160
        BY <2>1, <4>1
      <4>3. 160 <= 160 * (n + 1)
        BY <3>1
      <4>4. 160 <= Clocks!Limit[d] * (n + 1)
        BY <2>3, <3>1, <3>3, <4>3 DEF Clocks!Dividers
      <4> QED
        BY <3>1, <4>2, <4>4 DEF n
    <3> QED
      BY <3>2, <3>3
  <2> QED
    BY <2>2, <2>3 DEF DomainsInRange, Clocks!DomainsInRange, DividersSet
<1> QED
  BY <1>1, ClockInvariance, PTL

(* After system16mhz the processor runs from the external clock with S40   *)
(* on, before the other cores are turned on and after.                     *)
THEOREM ExternalClockKeptHolds == BootSpec => []ExternalClockKept
<1>1. ClockInv => ExternalClockKept
  <2> SUFFICES ASSUME ClockInv, setup = "system16mhz", Clocks!Done
               PROVE  sysclk = "XOSC" /\ reg.dc["DC2"].de
    BY DEF ExternalClockKept, Clocks!ExternalClockKept
  <2>0. Len(Clocks!Program) = 11
    BY ElevenWrites DEF ClockInv, ClockTypeOK
  <2>1. step = 12 /\ ~mtrans
    BY <2>0 DEF ClockInv, ClockTypeOK, Clocks!Done
  <2> QED
    BY <2>1 DEF ClockInv, DividersSet
<1> QED
  BY <1>1, ClockInvariance, PTL
=============================================================================
