------------------------------ MODULE CoreStartup ------------------------------
(***************************************************************************)
(* startup.S on every core, with the memory map of its linker script: the  *)
(* fill of the SRAM that makes its ECC valid, the copy of .data, the       *)
(* clearing of .bss, and main, which on the first core may turn the others *)
(* on.  They all start from the same startup.S and run side by side.       *)
(* Memory is a set of numbered blocks of 32 KB.                            *)
(***************************************************************************)
EXTENDS Integers

CONSTANTS
  Cores, Main,    (* the cores; the one that runs out of reset              *)
  FillFirst,      (* SRAM_BASE_ADDR of each core: its first block           *)
  FillLast,       (* SRAM_BASE_ADDR + SRAM_SIZE: its last block             *)
  Own,            (* m_data of each core: the blocks it links its data into *)
  DataFirst,      (* __DATA_SRAM_ADDR of each core, in blocks               *)
  Sizes,          (* of each core: how many blocks its .data may begin      *)
  Shared,         (* the blocks of the section shared                       *)
  Blocks          (* all blocks of SRAM                                     *)

ASSUME CoresAssumption == Main \in Cores /\ Cores \intersect {"raw", "zero"} = {}
ASSUME RangeAssumption ==
  /\ FillFirst \in [Cores -> Int] /\ FillLast \in [Cores -> Int]
  /\ \A c \in Cores : FillFirst[c] <= FillLast[c]
  /\ \A c \in Cores : FillFirst[c] .. FillLast[c] \subseteq Blocks
ASSUME OwnAssumption ==
  /\ Own \in [Cores -> SUBSET Blocks]
  /\ \A c \in Cores : Own[c] \subseteq FillFirst[c] .. FillLast[c]
  /\ \A c, d \in Cores : c # d => Own[c] \intersect Own[d] = {}
ASSUME SharedAssumption ==
  /\ Shared \subseteq FillFirst[Main] .. FillLast[Main]
  /\ \A c \in Cores : Own[c] \intersect Shared = {}

(* With two blocks to spare, .data is filled before and spares Shared.     *)
ASSUME DataAssumption ==
  \A c \in Cores : \A n \in Sizes[c] :
    /\ DataFirst[c] \in Int /\ n \in Nat
    /\ DataFirst[c] .. DataFirst[c] + n + 1 \subseteq (FillFirst[c] .. FillLast[c]) \ Shared

VARIABLES
  pc,      (* where each core is                                            *)
  next,    (* the block its fill writes next                                *)
  mem,     (* what is in a block: nothing valid, zeros, or a core's data    *)
  size,    (* how many blocks the .data of each core begins                 *)
  asked    (* main has passed the prompt "Activate cores 1 and 2?"          *)

vars == <<pc, next, mem, size, asked>>

TypeOK ==
  /\ pc \in [Cores -> {"off", "fill", "copy", "bss", "main"}]
  /\ next \in [Cores -> Int]
  /\ mem \in [Blocks -> Cores \union {"raw", "zero"}]
  /\ asked \in BOOLEAN
  /\ \A c \in Cores : next[c] \in FillFirst[c] .. FillLast[c] /\ size[c] \in Sizes[c]

Init ==
  /\ pc = [c \in Cores |-> IF c = Main THEN "fill" ELSE "off"]
  /\ next = FillFirst
  /\ mem = [b \in Blocks |-> "raw"]
  /\ size \in {n \in [Cores -> UNION {Sizes[c] : c \in Cores}] : \A c \in Cores : n[c] \in Sizes[c]}
  /\ asked = FALSE

-----------------------------------------------------------------------------
(* Faulty variants: bugs the properties must notice. *)

(* Only the core's own data area is filled, which spares the other cores   *)
(* and forgets the shared section.                                         *)
Fill_OwnOnly(c) ==
  /\ pc[c] = "fill"
  /\ mem' = [b \in Blocks |-> IF b \in Own[c] THEN "zero" ELSE mem[b]]
  /\ pc' = [pc EXCEPT ![c] = "copy"]
  /\ UNCHANGED <<next, size, asked>>

(* The size is taken for a number of words, and bytes are copied.          *)
Loaded_Words(n) == 4 * n

-----------------------------------------------------------------------------
(* sram_loop: zeros (all registers are zero by now), and so valid ECC.     *)
Fill(c) ==
  /\ pc[c] = "fill"
  /\ mem' = [mem EXCEPT ![next[c]] = "zero"]
  /\ IF next[c] = FillLast[c]
       THEN pc' = [pc EXCEPT ![c] = "copy"] /\ UNCHANGED next
       ELSE next' = [next EXCEPT ![c] = @ + 1] /\ UNCHANGED pc
  /\ UNCHANGED <<size, asked>>

(* e_lis with __DATA_SIZE@ha, e_or2i with @l: @ha counts on a signed low   *)
(* half, so a size with bit 15 set is loaded 64 KB too large.  A size that *)
(* begins n blocks, none of them full, has this bit when n is even.        *)
Loaded(n) == IF n # 0 /\ n % 2 = 0 THEN n + 2 ELSE n

Copied(c) == DataFirst[c] .. DataFirst[c] + Loaded(size[c]) - 1

(* DATACOPY and SDATACOPY. *)
DATACOPY(c) ==
  /\ pc[c] = "copy"
  /\ mem' = [b \in Blocks |-> IF b \in Own[c] \union Copied(c) THEN c ELSE mem[b]]
  /\ pc' = [pc EXCEPT ![c] = "bss"]
  /\ UNCHANGED <<next, size, asked>>

(* bss_Init and the stack pointer: .bss is zeroed once more, main runs. *)
bss_Init(c) ==
  /\ pc[c] = "bss"
  /\ pc' = [pc EXCEPT ![c] = "main"]
  /\ UNCHANGED <<next, mem, size, asked>>

(* The answer to the prompt is y: the other cores leave reset together. *)
turn_on_cores ==
  /\ pc[Main] = "main" /\ ~asked
  /\ asked' = TRUE
  /\ pc' = [c \in Cores |-> IF pc[c] = "off" THEN "fill" ELSE pc[c]]
  /\ UNCHANGED <<next, mem, size>>

LeaveCoresOff ==
  /\ pc[Main] = "main" /\ ~asked
  /\ asked' = TRUE
  /\ UNCHANGED <<pc, next, mem, size>>

Start(c) == Fill(c) \/ DATACOPY(c) \/ bss_Init(c)

Next == turn_on_cores \/ LeaveCoresOff \/ \E c \in Cores : Start(c)

Spec == Init /\ [][Next]_vars

-----------------------------------------------------------------------------
(* The cores whose data no other core writes while it may be in use: only  *)
(* the first core's start is over before the others begin theirs.          *)
Filled(c) == FillFirst[c] .. FillLast[c]
Spared == {c \in Cores : \A d \in Cores \ {c, Main} :
             Own[c] \intersect (Filled(d) \union Copied(d)) = {}}

(* No core copies to or runs on memory whose ECC is not valid, not even    *)
(* past the end of its .data, nor, in main, in the section that it shares  *)
(* with the others.                                                        *)
EccBeforeUse ==
  \A c \in Cores :
    /\ pc[c] = "copy" => \A b \in Copied(c) : mem[b] # "raw"
    /\ pc[c] \in {"copy", "bss", "main"} => \A b \in Own[c] : mem[b] # "raw"
    /\ pc[c] = "main" => \A b \in Shared : mem[b] # "raw"

(* Once a spared core has initialised its data, no other core's start      *)
(* touches it, and no core copies its data over the shared section.        *)
DataKept ==
  /\ \A c \in Spared : pc[c] = "main" => \A b \in Own[c] : mem[b] = c
  /\ \A b \in Shared : mem[b] \notin Cores

(* "Additional linker scripts should be provided to prevent the cores from *)
(* using the same flash and RAM": once a core is in main, its data is its  *)
(* own, for every core.                                                    *)
AllDataKept ==
  \A c \in Cores : pc[c] = "main" => \A b \in Own[c] : mem[b] = c

(* The inductive invariant: how far a fill has come.                       *)
SInv ==
  /\ TypeOK
  /\ \A c \in Cores :
       /\ pc[c] = "off" => next[c] = FillFirst[c]
       /\ pc[c] = "fill" => \A b \in FillFirst[c] .. next[c] - 1 : mem[b] # "raw"
       /\ pc[c] \in {"copy", "bss", "main"} => \A b \in Filled(c) : mem[b] # "raw"
  /\ pc[Main] # "main" => \A c \in Cores \ {Main} : pc[c] = "off"
  /\ pc[Main] # "off"
  /\ \A c \in Spared : pc[c] \in {"bss", "main"} => \A b \in Own[c] : mem[b] = c
  /\ \A b \in Shared : mem[b] \notin Cores
=============================================================================
